---- MODULE Spec2Model ----
(***************************************************************************)
(* Packet reception core of picoquic/packet.c (pquic).                     *)
(*                                                                         *)
(* A datagram is a sequence of coalesced segments.  A segment is the       *)
(* structured content of its bytes: the bits of the first byte, the        *)
(* version, the connection ids with their lengths, the token, the declared *)
(* payload length, the truncated packet number, whether the AEAD tag       *)
(* verifies under the keys of the receiving connection, the frames of the  *)
(* payload and the last 16 bytes.  Offsets and lengths are the byte        *)
(* counts of the wire format, so that every length test of the code is     *)
(* computed as the code computes it.                                       *)
(*                                                                         *)
(* The frame decoder, the TLS engine, the connection registry, the receive *)
(* set and the enumerations of picoquic.h are not part of packet.c; they   *)
(* are modelled from the specification (sections 3, 4.7, 4.8 and 6).       *)
(***************************************************************************)
EXTENDS Integers, Sequences, FiniteSets, TLC

VARIABLES quic, cnxs, sp_queue, phase, dgram, obs, calls, pncall, phcall

vars == <<quic, cnxs, sp_queue, phase, dgram, obs, calls, pncall, phcall>>

(***************************************************************************)
(* Bounds of the model.                                                    *)
(***************************************************************************)
MaxCnx == 2
MaxSegs == 2
MaxPn == 1
MaxQueue == 1
MaxDatagrams == 1
MaxDuplicates == 1
MaxTime == 2
InitialRtt == 1
InitialRetransmitTimer == 4
CidLen == 8

(***************************************************************************)
(* Program constants.                                                      *)
(***************************************************************************)
PICOQUIC_ENFORCED_INITIAL_MTU == 1200
PICOQUIC_RESET_SECRET_SIZE == 16
PICOQUIC_RESET_PACKET_MIN_SIZE == 37
HP_SAMPLE_SIZE == 16
RETRY_TOKEN_SIZE == 16

(* The table of supported versions.  A version is named by its low 16     *)
(* bits; 0 is the version of a Version Negotiation packet.                 *)
picoquic_supported_versions == <<29, 28>>

picoquic_get_version_index(vn) ==
    IF \E i \in 1..Len(picoquic_supported_versions) : picoquic_supported_versions[i] = vn
    THEN (CHOOSE i \in 1..Len(picoquic_supported_versions) :
              picoquic_supported_versions[i] = vn) - 1
    ELSE -1

NullCid == 0
NoCnx == 0
NullAddr == 0

PacketTypes == {"error", "vn", "initial", "retry", "handshake", "0rtt", "phi0", "phi1"}

(* picoquic_state_enum, in the order of its declaration: the code compares *)
(* states with < and >=.                                                   *)
StateOrder == <<"client_init", "client_init_sent", "client_init_resent",
                "server_init", "server_handshake",
                "client_handshake_start", "client_handshake_progress",
                "client_almost_ready", "server_almost_ready",
                "client_ready", "server_ready",
                "closing_received", "closing", "draining", "disconnected">>

StateRank(s) == CHOOSE i \in 1..Len(StateOrder) : StateOrder[i] = s

(* Packet number spaces: 0 initial, 1 application, 2 handshake.            *)
PC_INITIAL == 0
PC_APPLICATION == 1
PC_HANDSHAKE == 2

(* Integer widths.  TLC integers are 32-bit, so the 32-bit and 64-bit words *)
(* of the code are scaled to 26 and 30 bits; uint16 and the 1, 2 and 3     *)
(* byte packet numbers keep their widths, and a 4-byte packet number fills *)
(* the scaled 32-bit word.                                                 *)
Word16 == 2^16
Word32 == 2^26
Word64 == 2^30

U16(x) == x % Word16
U32(x) == x % Word32
U64(x) == x % Word64

picoquic_varint_length(v) ==
    IF v < 64 THEN 1 ELSE IF v < 16384 THEN 2 ELSE IF v < 1073741824 THEN 4 ELSE 8

IdLen(cid) == IF cid = NullCid THEN 0 ELSE CidLen

(***************************************************************************)
(* Connection registry (quicctx.c): lookup by registered local connection  *)
(* id and by the peer address registered when the connection was created.  *)
(***************************************************************************)
Slots == 1..MaxCnx

(* A slot of the registry that holds no connection.                        *)
FreeSlot == [cnx_state |-> "free"]

InUse(reg, i) == reg[i].cnx_state # "free"

picoquic_cnx_by_id(reg, cid) ==
    IF cid # NullCid /\ \E i \in Slots : InUse(reg, i) /\ reg[i].local_cnxid = cid
    THEN CHOOSE i \in Slots : InUse(reg, i) /\ reg[i].local_cnxid = cid
    ELSE NoCnx

picoquic_cnx_by_net(reg, addr) ==
    IF \E i \in Slots : InUse(reg, i) /\ reg[i].reg_addr = addr
    THEN CHOOSE i \in Slots : InUse(reg, i) /\ reg[i].reg_addr = addr
           /\ \A j \in Slots : (InUse(reg, j) /\ reg[j].reg_addr = addr) => i <= j
    ELSE NoCnx

(***************************************************************************)
(* Header parser.                                                          *)
(***************************************************************************)
ZeroHeader ==
    [ptype |-> "error", vn |-> 0, version_index |-> -1,
     dest_cnx_id |-> NullCid, srce_cnx_id |-> NullCid,
     token_offset |-> 0, token_length |-> 0,
     offset |-> 0, pn_offset |-> 0, pn |-> 0, pn64 |-> 0, pnmask |-> 0,
     payload_length |-> 0, epoch |-> 0, pc |-> PC_INITIAL,
     has_spin_bit |-> 0, spin |-> 0]

(* Bytes the varint at `offset` occupies, 0 when it runs past `length`.    *)
picoquic_varint_decode(value, offset, length) ==
    IF offset < length /\ offset + picoquic_varint_length(value) <= length
    THEN picoquic_varint_length(value) ELSE 0

(* The destination id a short header yields: cnxid_length bytes after the  *)
(* first byte, whatever the sender meant them to be.                       *)
GarbageCid == 99

ShortHeaderCid(seg, cnxid_length) ==
    IF cnxid_length = 0 THEN NullCid
    ELSE IF seg.dcid = NullCid THEN GarbageCid ELSE seg.dcid

(* The type switch that leaves the epoch of the memset.                    *)
LongTypeFields_epoch_zero(ltype) ==
    CASE ltype = 1 -> [ptype |-> "0rtt", pc |-> PC_APPLICATION, epoch |-> 0]
      [] ltype = 2 -> [ptype |-> "handshake", pc |-> PC_HANDSHAKE, epoch |-> 0]
      [] ltype = 3 -> [ptype |-> "retry", pc |-> PC_INITIAL, epoch |-> 0]
      [] OTHER -> [ptype |-> "initial", pc |-> PC_INITIAL, epoch |-> 0]

LongTypeFields(ltype) ==
    CASE ltype = 1 -> [ptype |-> "0rtt", pc |-> PC_APPLICATION, epoch |-> 1]
      [] ltype = 2 -> [ptype |-> "handshake", pc |-> PC_HANDSHAKE, epoch |-> 2]
      [] ltype = 3 -> [ptype |-> "retry", pc |-> PC_INITIAL, epoch |-> 0]
      [] OTHER -> [ptype |-> "initial", pc |-> PC_INITIAL, epoch |-> 0]

(* Lines 95-113: version negotiation packet.                               *)
ParseVersionNegotiation(reg, seg, length, addr_from, ph0, cnx0) ==
    LET ph == [ph0 EXCEPT !.ptype = "vn", !.pc = PC_INITIAL,
                   !.payload_length =
                       U16(IF length > ph0.offset THEN length - ph0.offset ELSE 0)]
        byid == picoquic_cnx_by_id(reg, ph.dest_cnx_id)
        bynet == picoquic_cnx_by_net(reg, addr_from)
        cnx == IF cnx0 # NoCnx THEN cnx0
               ELSE IF IdLen(ph.dest_cnx_id) > 0 THEN byid
               ELSE IF bynet # NoCnx /\ IdLen(reg[bynet].local_cnxid) # 0 THEN NoCnx
               ELSE bynet
    IN [ret |-> 0, ph |-> ph, cnx |-> cnx]

(* Lines 114-188: the switch on the long type, and the token of an Initial. *)
LongHeaderType(seg, length, ph0, vidx, tf, l_tok_len) ==
    IF vidx < 0 THEN ph0
    ELSE IF tf.ptype # "initial"
    THEN [ph0 EXCEPT !.version_index = vidx, !.ptype = tf.ptype,
                     !.pc = tf.pc, !.epoch = tf.epoch]
    ELSE IF l_tok_len = 0
    THEN [ph0 EXCEPT !.version_index = vidx, !.ptype = "error",
                     !.pc = 0, !.epoch = 0, !.offset = length]
    ELSE [ph0 EXCEPT !.version_index = vidx, !.ptype = "initial",
                     !.pc = PC_INITIAL, !.epoch = 0,
                     !.token_length = U32(seg.toklen),
                     !.token_offset = ph0.offset + l_tok_len,
                     !.offset = U32(ph0.offset + l_tok_len + seg.toklen)]

(* Lines 190-217: the payload length; ph2 is the header when the length    *)
(* test fails, ph3 when it passes.                                         *)
LongHeaderLength(seg, length, ph1) ==
    LET var_length == IF ph1.ptype = "retry" THEN 0
                      ELSE picoquic_varint_decode(seg.plen, ph1.offset, length)
        payload_length ==
            IF ph1.ptype = "retry"
            THEN (IF length > ph1.offset THEN U32(U16(length) - ph1.offset) ELSE 0)
            ELSE IF var_length > 0 THEN seg.plen ELSE 0
        bad == IF ph1.ptype = "retry" THEN ~(length > ph1.offset)
               ELSE var_length <= 0
                    \/ U64(ph1.offset + var_length + payload_length) > length
                    \/ ph1.version_index < 0
    IN IF ~bad
       THEN [ph1 EXCEPT !.payload_length = U16(payload_length),
                        !.offset = ph1.offset + var_length,
                        !.pn_offset = ph1.offset + var_length]
       ELSE IF ph1.ptype = "retry" THEN [ph1 EXCEPT !.ptype = "error"]
       ELSE [ph1 EXCEPT !.ptype = "error",
                !.payload_length =
                    U16(IF length > ph1.offset THEN length - ph1.offset ELSE 0)]

(* The connection found by address is kept whatever the packet.            *)
LongHeaderCnx_any_type(reg, ph, cnx0, byid, bynet) ==
    IF ph.ptype = "error" \/ cnx0 # NoCnx THEN cnx0
    ELSE IF byid # NoCnx THEN byid
    ELSE bynet

(* Lines 219-238: the connection of a long header.                         *)
LongHeaderCnx(reg, ph, cnx0, byid, bynet) ==
    IF ph.ptype = "error" \/ cnx0 # NoCnx THEN cnx0
    ELSE IF byid # NoCnx THEN byid
    ELSE IF bynet = NoCnx THEN NoCnx
    ELSE IF ph.ptype \in {"initial", "0rtt"}
            /\ reg[bynet].initial_cnxid = ph.dest_cnx_id THEN bynet
    ELSE NoCnx

LongHeaderResult(reg, addr_from, cnx0, ph) ==
    [ret |-> 0, ph |-> ph,
     cnx |-> LongHeaderCnx(reg, ph, cnx0, picoquic_cnx_by_id(reg, ph.dest_cnx_id),
                           picoquic_cnx_by_net(reg, addr_from))]

(* Lines 114-241: long header of a nonzero version.                        *)
ParseLongHeader(reg, seg, length, addr_from, ph0, cnx0) ==
    LongHeaderResult(reg, addr_from, cnx0,
        LongHeaderLength(seg, length,
            LongHeaderType(seg, length, ph0, picoquic_get_version_index(seg.vn),
                           LongTypeFields(seg.ltype),
                           picoquic_varint_decode(seg.toklen, ph0.offset, length))))

(* Lines 244-295: short header.                                            *)
ParseShortHeader(q, reg, seg, length, addr_from, ph0, cnx0, receiving) ==
    LET local_ctx_length == q.local_ctx_length
        cnxid_length == IF receiving = 0 /\ cnx0 # NoCnx
                        THEN IdLen(reg[cnx0].remote_cnxid) ELSE local_ctx_length
        ph1 == [ph0 EXCEPT !.pc = PC_APPLICATION]
        ph2 == [ph1 EXCEPT !.offset = 1 + cnxid_length,
                           !.dest_cnx_id = ShortHeaderCid(seg, cnxid_length)]
        cnx == IF cnx0 # NoCnx THEN cnx0
               ELSE IF local_ctx_length > 0 THEN picoquic_cnx_by_id(reg, ph2.dest_cnx_id)
               ELSE picoquic_cnx_by_net(reg, addr_from)
    IN IF ~(length >= 1 + cnxid_length)
       THEN [ret |-> 0, cnx |-> cnx0,
             ph |-> [ph1 EXCEPT !.ptype = "error", !.offset = length,
                                !.payload_length = 0]]
       ELSE IF cnx # NoCnx
       THEN [ret |-> IF length < ph2.offset THEN -1 ELSE 0, cnx |-> cnx,
             ph |-> [ph2 EXCEPT !.epoch = 3,
                        !.version_index = reg[cnx].version_index,
                        !.has_spin_bit = 1, !.ptype = "phi0", !.spin = seg.spin,
                        !.pn_offset = ph2.offset, !.pn = 0, !.pnmask = 0,
                        !.payload_length =
                            IF length < ph2.offset THEN 0 ELSE U16(length - ph2.offset)]]
       ELSE [ret |-> 0, cnx |-> cnx,
             ph |-> [ph2 EXCEPT !.payload_length =
                        U16(IF length > ph2.offset THEN length - ph2.offset ELSE 0)]]

picoquic_parse_packet_header(q, reg, seg, length, addr_from, cnx0, receiving) ==
    LET ph0 == [ZeroHeader EXCEPT !.version_index = -1]
        l_dest_id == IdLen(seg.dcid)
        l_srce_id == IdLen(seg.scid)
        phl == [ph0 EXCEPT !.vn = seg.vn, !.dest_cnx_id = seg.dcid,
                           !.srce_cnx_id = seg.scid,
                           !.offset = 6 + l_dest_id + 1 + l_srce_id,
                           !.has_spin_bit = 0, !.spin = 0]
    IN IF length = 0 THEN [ret |-> -1, ph |-> ph0, cnx |-> cnx0]
       ELSE IF ~seg.fixed
       THEN [ret |-> 0, cnx |-> cnx0,
             ph |-> [ph0 EXCEPT !.ptype = "error", !.offset = length,
                                !.payload_length = 0]]
       ELSE IF seg.long
       THEN IF length < 7 THEN [ret |-> -1, ph |-> ph0, cnx |-> cnx0]
            ELSE IF 6 + l_dest_id + 1 > length
            THEN [ret |-> -1, ph |-> [ph0 EXCEPT !.vn = seg.vn], cnx |-> cnx0]
            ELSE IF seg.vn = 0
            THEN ParseVersionNegotiation(reg, seg, length, addr_from, phl, cnx0)
            ELSE ParseLongHeader(reg, seg, length, addr_from, phl, cnx0)
       ELSE ParseShortHeader(q, reg, seg, length, addr_from, ph0, cnx0, receiving)

(***************************************************************************)
(* Packet number reconstruction (lines 301-324).  The mask has its high    *)
(* bits set: for an n-byte packet number (~mask) + 1 = 2^(8n) and          *)
(* x & mask = x - x mod 2^(8n).                                            *)
(***************************************************************************)
PnWindow(n) == IF n >= 4 THEN Word32 ELSE 2^(8 * n)

PnMask(n) == Word64 - PnWindow(n)

AndMask(x, mask) == IF mask = 0 THEN 0 ELSE x - (x % (Word64 - mask))

(* The candidate of the expected value's own window, never moved by one   *)
(* window.                                                                 *)
picoquic_get_packet_number64_same_roll(highest, mask, pn) ==
    AndMask(U64(highest + 1), mask) + pn

picoquic_get_packet_number64(highest, mask, pn) ==
    LET expected == U64(highest + 1)
        not_mask_plus_one == U64((Word64 - 1 - mask) + 1)
        pn64 == AndMask(expected, mask) + pn
    IN IF pn64 < expected
       THEN LET delta1 == expected - pn64
                delta2 == U64(not_mask_plus_one - delta1 + Word64)
            IN IF delta2 < delta1 THEN U64(pn64 + not_mask_plus_one) ELSE pn64
       ELSE LET delta1 == pn64 - expected
                delta2 == U64(not_mask_plus_one - delta1 + Word64)
            IN IF delta2 <= delta1 /\ AndMask(pn64, mask) > 0
               THEN U64(pn64 - not_mask_plus_one + Word64) ELSE pn64

(***************************************************************************)
(* Receive set of a packet number space (sack.c).                          *)
(***************************************************************************)
picoquic_is_pn_already_received(c, pc, pn64) == pn64 \in c.pkt_ctx[pc].received

picoquic_record_pn_received(c, pc, pn64) ==
    [c EXCEPT !.pkt_ctx[pc].received = @ \cup {pn64},
              !.pkt_ctx[pc].end_of_sack_range = IF pn64 > @ THEN pn64 ELSE @]

(***************************************************************************)
(* Header protection removal and AEAD (lines 331-418).  The AEAD tag       *)
(* verifies when the sender protected the segment with the keys the        *)
(* connection holds for the epoch (seg.auth), these keys are installed,    *)
(* and the protected range is the range the sender protected: the packet   *)
(* as parsed ends where the segment ends.  A failure is a value larger     *)
(* than any length.                                                        *)
(***************************************************************************)
AeadFail == Word64 - 1
AEAD_TAG == 16

get_incoming_path(c, ph) ==
    ph.dest_cnx_id = c.initial_cnxid \/ ph.dest_cnx_id = c.local_cnxid

picoquic_aead_decrypt_generic(seg, ph, key_ok, seglen) ==
    IF key_ok /\ seg.auth /\ ph.offset + ph.payload_length = seglen
       /\ ph.payload_length >= AEAD_TAG
    THEN ph.payload_length - AEAD_TAG ELSE AeadFail

(* Lines 347-393: removal of the header protection.                        *)
RemoveHeaderProtection(seg, ph0, invalid) ==
    IF invalid
    THEN [ph0 EXCEPT !.pn = Word32 - 1,
                     !.pnmask = Word64 - Word32,
                     !.offset = ph0.pn_offset]
    ELSE [ph0 EXCEPT !.pnmask = PnMask(seg.pnl), !.pn = seg.pn,
                     !.offset = ph0.offset + seg.pnl,
                     !.payload_length = U16(ph0.payload_length + 65536 - seg.pnl),
                     !.ptype = IF ph0.ptype = "phi0" /\ seg.kp = 1
                               THEN "phi1" ELSE ph0.ptype]

(* Lines 395-398: the full packet number.                                  *)
SetPn64(c, ph1) ==
    [ph1 EXCEPT !.pn64 = picoquic_get_packet_number64(
                    c.pkt_ctx[ph1.pc].end_of_sack_range, ph1.pnmask, ph1.pn)]

(* Lines 400-410: the duplicate test and the AEAD.                         *)
DecryptResult(c, seg, seglen, key_ok, ph2) ==
    [ph |-> ph2,
     already_received |-> picoquic_is_pn_already_received(c, ph2.pc, ph2.pn64),
     decoded |-> picoquic_aead_decrypt_generic(seg, ph2, key_ok, seglen)]

HpInvalid(ph0, key_ok) ==
    ~key_ok \/ ph0.pn_offset + 4 + HP_SAMPLE_SIZE > ph0.offset + ph0.payload_length

picoquic_decrypt_packet(c, seg, seglen, ph0, key_ok) ==
    DecryptResult(c, seg, seglen, key_ok /\ ~HpInvalid(ph0, key_ok),
                  SetPn64(c, RemoveHeaderProtection(seg, ph0, HpInvalid(ph0, key_ok))))

(***************************************************************************)
(* Connection creation and deletion (quicctx.c).  A created connection is  *)
(* a server connection in its initial state with Initial keys; creation    *)
(* fails when no context can be allocated.                                 *)
(***************************************************************************)
EmptyPktCtx ==
    [received |-> {}, end_of_sack_range |-> 0, ack_needed |-> FALSE,
     outstanding |-> FALSE]

FreshPktCtx == [pc \in {PC_INITIAL, PC_APPLICATION, PC_HANDSHAKE} |-> EmptyPktCtx]

LocalCidOf(q, slot) == IF q.local_ctx_length = 0 THEN NullCid ELSE 10 + slot

ResetSecretOf(cid) == 100 + cid

FreeSlots(reg) == {i \in Slots : ~InUse(reg, i)}

NewServerCnx(q, slot, initial_cnxid, remote_cnxid, addr, vn) ==
    [cnx_state |-> "server_init", client_mode |-> FALSE,
     initial_cnxid |-> initial_cnxid,
     local_cnxid |-> LocalCidOf(q, slot),
     remote_cnxid |-> remote_cnxid,
     reg_addr |-> addr, peer_addr |-> addr,
     version_index |-> picoquic_get_version_index(vn),
     reset_secret |-> ResetSecretOf(LocalCidOf(q, slot)),
     keys |-> {0}, hs_encrypt |-> FALSE, tls_complete |-> FALSE,
     handshake_done |-> FALSE, crypto_in |-> {},
     pkt_ctx |-> FreshPktCtx,
     challenge |-> 0, challenge_verified |-> TRUE, challenge_time |-> 0,
     smoothed_rtt |-> InitialRtt, retransmit_timer |-> InitialRetransmitTimer,
     received |-> 0,
     retry_token |-> 0, odcid |-> NullCid]

picoquic_create_cnx(q, oom, reg, initial_cnxid, remote_cnxid, addr, vn) ==
    IF oom \/ FreeSlots(reg) = {} THEN [reg |-> reg, cnx |-> NoCnx]
    ELSE LET slot == CHOOSE i \in FreeSlots(reg) : \A j \in FreeSlots(reg) : i <= j
         IN [reg |-> [reg EXCEPT ![slot] =
                         NewServerCnx(q, slot, initial_cnxid, remote_cnxid, addr, vn)],
             cnx |-> slot]

(* The connection stays registered.                                        *)
picoquic_delete_cnx_keep(reg, cnx) == reg

picoquic_delete_cnx(reg, cnx) == [reg EXCEPT ![cnx] = FreeSlot]

(***************************************************************************)
(* picoquic_parse_header_and_decrypt (lines 444-563).  dtail is the last   *)
(* 16 bytes of the datagram, seglen the length of the segment itself.      *)
(***************************************************************************)
EpochOfType(ptype) ==
    CASE ptype = "initial" -> 0
      [] ptype = "0rtt" -> 1
      [] ptype = "handshake" -> 2
      [] OTHER -> 3

(* The test without the packet type and without the comparison of the     *)
(* trailing bytes with the reset secret (lines 545-553).                   *)
IsStatelessReset_by_address(reg, ph, bynet, length, dtail) ==
    /\ bynet # NoCnx
    /\ length >= PICOQUIC_RESET_PACKET_MIN_SIZE

(* Lines 545-559: a short header for no known connection may be a reset.   *)
IsStatelessReset(reg, ph, bynet, length, dtail) ==
    /\ ph.ptype \in {"phi0", "phi1"}
    /\ bynet # NoCnx
    /\ length >= PICOQUIC_RESET_PACKET_MIN_SIZE
    /\ dtail = reg[bynet].reset_secret

(* The size test applied only to an Initial of a known connection.         *)
InitialTooShort_known_only(reg, ph, cnx, packet_length) ==
    /\ ph.ptype = "initial"
    /\ cnx # NoCnx
    /\ ~reg[cnx].client_mode
    /\ packet_length < PICOQUIC_ENFORCED_INITIAL_MTU

(* Lines 467-474: the size test of a server-bound Initial.                 *)
InitialTooShort(reg, ph, cnx, packet_length) ==
    /\ ph.ptype = "initial"
    /\ (cnx = NoCnx \/ ~reg[cnx].client_mode)
    /\ packet_length < PICOQUIC_ENFORCED_INITIAL_MTU

(* A decryption that reports no byte consumed.                             *)
Decrypted_nothing_consumed(ph0, ret1, created, cr, d) ==
    [ret |-> ret1, ph |-> d.ph, cnx |-> cr.cnx, reg |-> cr.reg, consumed |-> 0,
     new_context_created |-> created,
     decoded_length |-> d.decoded, already_received |-> d.already_received]

(* The outcome that looks at already_received before the AEAD result.      *)
DecryptOutcome_duplicate_first(ret, decoded_length, already_received, length, ph) ==
    IF already_received THEN "duplicate"
    ELSE IF decoded_length > U32(length - ph.offset + Word32) THEN "aead_check"
    ELSE ret

(* The outcome without the test of already_received (lines 538-540).       *)
DecryptOutcome_no_duplicate(ret, decoded_length, already_received, length, ph) ==
    IF decoded_length > U32(length - ph.offset + Word32) THEN "aead_check"
    ELSE ret

(* Lines 530-543: the outcome of the decryption.                           *)
DecryptOutcome(ret, decoded_length, already_received, length, ph) ==
    IF decoded_length > U32(length - ph.offset + Word32) THEN "aead_check"
    ELSE IF already_received THEN "duplicate"
    ELSE ret

(* Lines 487-543: decryption by packet type and its outcome.  cr is the    *)
(* registry and the connection after lines 452-481, d the result of the    *)
(* decryption.                                                             *)
Decrypted(ph0, ret1, created, cr, d) ==
    LET encrypted == ph0.ptype \in {"initial", "handshake", "0rtt", "phi0", "phi1"}
        length2 == IF ph0.ptype = "initial"
                   THEN d.ph.offset + d.ph.payload_length
                   ELSE ph0.offset + ph0.payload_length
        ret3 == DecryptOutcome(IF ph0.ptype \in {"vn", "retry"} \/ encrypted
                               THEN ret1 ELSE "detected",
                               d.decoded, d.already_received, length2, d.ph)
        delete == ret3 = "aead_check" /\ created
    IN [ret |-> ret3,
        ph |-> IF ret3 \in {"aead_check", "duplicate"} THEN d.ph
               ELSE [d.ph EXCEPT !.payload_length = U16(d.decoded)],
        cnx |-> IF delete THEN NoCnx ELSE cr.cnx,
        reg |-> IF delete THEN picoquic_delete_cnx(cr.reg, cr.cnx) ELSE cr.reg,
        consumed |-> length2,
        new_context_created |-> created /\ ~delete,
        decoded_length |-> d.decoded, already_received |-> d.already_received]

DecryptByType(c, seg, seglen, ph0) ==
    IF ph0.ptype \in {"initial", "handshake", "0rtt", "phi0", "phi1"}
    THEN picoquic_decrypt_packet(c, seg, seglen, ph0, EpochOfType(ph0.ptype) \in c.keys)
    ELSE [ph |-> ph0, already_received |-> FALSE,
          decoded |-> IF ph0.ptype = "retry" THEN ph0.payload_length ELSE 0]

(* Lines 545-559: no connection.                                           *)
NoConnection(reg, ph0, ret1, bynet, dtail) ==
    LET reset == IsStatelessReset(reg, ph0, bynet, ph0.offset + ph0.payload_length, dtail)
    IN [ret |-> IF reset THEN "stateless_reset" ELSE ret1, ph |-> ph0,
        cnx |-> IF reset THEN bynet ELSE NoCnx, reg |-> reg,
        consumed |-> ph0.offset + ph0.payload_length, new_context_created |-> FALSE,
        decoded_length |-> 0, already_received |-> FALSE]

(* Lines 483-561: after the connection was found or created.               *)
WithConnection(seg, seglen, addr_from, dtail, ph0, ret1, make, cr) ==
    IF cr.cnx # NoCnx
    THEN Decrypted(ph0, ret1, make, cr, DecryptByType(cr.reg[cr.cnx], seg, seglen, ph0))
    ELSE NoConnection(cr.reg, ph0, ret1, picoquic_cnx_by_net(cr.reg, addr_from), dtail)

(* Lines 465-481: the size test of an Initial and the creation of a        *)
(* connection.                                                             *)
Listen(q, oom, reg0, seg, seglen, addr_from, dtail, p, ret1) ==
    LET make == p.ph.ptype = "initial" /\ ret1 = "ok" /\ p.cnx = NoCnx
    IN WithConnection(seg, seglen, addr_from, dtail, p.ph, ret1, make,
           IF make
           THEN picoquic_create_cnx(q, oom, reg0, p.ph.dest_cnx_id, p.ph.srce_cnx_id,
                                    addr_from, p.ph.vn)
           ELSE [reg |-> reg0, cnx |-> p.cnx])

Parsed(q, oom, reg0, seg, seglen, packet_length, addr_from, dtail, p) ==
    IF p.ret # 0
    THEN [ret |-> "-1", ph |-> p.ph, cnx |-> p.cnx, reg |-> reg0,
          consumed |-> 0, new_context_created |-> FALSE,
          decoded_length |-> 0, already_received |-> FALSE]
    ELSE Listen(q, oom, reg0, seg, seglen, addr_from, dtail, p,
                IF InitialTooShort(reg0, p.ph, p.cnx, packet_length)
                THEN "initial_too_short" ELSE "ok")

picoquic_parse_header_and_decrypt(q, oom, reg0, seg, seglen, length0, plen, from, dtail) ==
    Parsed(q, oom, reg0, seg, seglen, plen, from, dtail,
           picoquic_parse_packet_header(q, reg0, seg, length0, from, NoCnx, 1))

(***************************************************************************)
(* The collaborators of the reception path: the frame decoder, the TLS     *)
(* engine and the connection operations of quicctx.c.  The payload of a    *)
(* segment is one of: "data" (frames that ask for an acknowledgment),      *)
(* "crypto" (handshake bytes), "close" (a CONNECTION_CLOSE frame) and      *)
(* "bad" (frames the decoder rejects).                                     *)
(*                                                                         *)
(* The world w threaded through a call holds the registry, the queue of    *)
(* stateless packets and the calls made upward and to the collaborators:   *)
(* cb the callbacks, dec the calls of the frame decoder, tls the calls of  *)
(* the TLS engine, woke the connections whose wake time was set.           *)
(***************************************************************************)
PcOfEpoch(epoch) ==
    CASE epoch = 0 -> PC_INITIAL
      [] epoch = 2 -> PC_HANDSHAKE
      [] OTHER -> PC_APPLICATION

picoquic_set_cnx_state(c, state) == [c EXCEPT !.cnx_state = state]

FrameEffect(c, frames, epoch) ==
    CASE frames = "data" -> [c EXCEPT !.pkt_ctx[PcOfEpoch(epoch)].ack_needed = TRUE]
      [] frames = "crypto" ->
            [c EXCEPT !.pkt_ctx[PcOfEpoch(epoch)].ack_needed = TRUE,
                      !.crypto_in = @ \cup {epoch}]
      [] frames = "close" ->
            IF StateRank(c.cnx_state) < StateRank("closing_received")
            THEN picoquic_set_cnx_state(c, "closing_received") ELSE c
      [] OTHER -> c

picoquic_decode_frames(w, cnx, seg, ph, epoch) ==
    [w |-> [w EXCEPT !.reg[cnx] = FrameEffect(@, seg.frames, epoch),
                     !.dec = Append(@, [cnx |-> cnx, epoch |-> epoch,
                                        offset |-> ph.offset,
                                        length |-> ph.payload_length,
                                        state |-> w.reg[cnx].cnx_state])],
     ret |-> IF seg.frames = "bad" THEN "frame_error" ELSE "ok"]

picoquic_decode_closing_frames(seg) ==
    [ret |-> IF seg.frames = "bad" THEN "frame_error" ELSE "ok",
     closing_received |-> seg.frames = "close"]

TlsStep(c) ==
    LET d == [c EXCEPT !.crypto_in = {}]
    IN CASE c.cnx_state = "server_init" /\ 0 \in c.crypto_in ->
              [d EXCEPT !.cnx_state = "server_handshake", !.keys = @ \cup {2},
                        !.hs_encrypt = TRUE, !.pkt_ctx[PC_INITIAL].outstanding = TRUE,
                        !.pkt_ctx[PC_HANDSHAKE].outstanding = TRUE]
         [] c.cnx_state = "server_handshake" /\ 2 \in c.crypto_in /\ 2 \in c.keys ->
              [d EXCEPT !.cnx_state = "server_ready", !.keys = @ \cup {3},
                        !.tls_complete = TRUE]
         [] c.cnx_state = "client_handshake_start" /\ 0 \in c.crypto_in
              /\ 2 \notin c.keys ->
              [d EXCEPT !.keys = @ \cup {2}, !.hs_encrypt = TRUE]
         [] c.cnx_state \in {"client_handshake_start", "client_handshake_progress"}
              /\ 2 \in c.crypto_in /\ 2 \in c.keys ->
              [d EXCEPT !.cnx_state = "client_almost_ready", !.keys = @ \cup {3},
                        !.tls_complete = TRUE]
         [] OTHER -> d

picoquic_tls_stream_process(w, cnx) ==
    [w |-> [w EXCEPT !.reg[cnx] = TlsStep(@), !.tls = Append(@, cnx)],
     ret |-> "ok"]

picoquic_is_tls_handshake_complete(c) == c.tls_complete

(* No implicit acknowledgment.                                             *)
picoquic_implicit_handshake_ack_none(c, pc) == c

picoquic_implicit_handshake_ack(c, pc) == [c EXCEPT !.pkt_ctx[pc].outstanding = FALSE]

(* Version reselection after a Version Negotiation packet.                 *)
picoquic_reset_cnx_version(c, versions) ==
    LET ok == {i \in 1..Len(picoquic_supported_versions) :
                   picoquic_supported_versions[i] \in versions}
    IN IF ok = {} THEN [c |-> picoquic_set_cnx_state(c, "disconnected"), ret |-> "ok"]
       ELSE [c |-> [c EXCEPT !.cnx_state = "client_init",
                             !.version_index =
                                 (CHOOSE i \in ok : \A j \in ok : i <= j) - 1,
                             !.pkt_ctx = FreshPktCtx, !.keys = {0}],
             ret |-> "ok"]

(* Restart of a client connection after a Retry.                           *)
picoquic_reset_cnx(c) ==
    [c EXCEPT !.cnx_state = "client_init_resent", !.pkt_ctx = FreshPktCtx,
              !.keys = {0}, !.hs_encrypt = FALSE, !.crypto_in = {}]

picoquic_get_retry_token(addr) == 200 + addr

(* A local protocol error starts the closing of the connection.            *)
picoquic_connection_error(c) == picoquic_set_cnx_state(c, "closing")

(***************************************************************************)
(* Stateless packets (lines 606-757).  x is the context of the call: the   *)
(* endpoint configuration q, the peer address from, whether allocations    *)
(* fail (oom), the value rnd drawn by the random generator and the value   *)
(* callback returned by the application's callback.                        *)
(***************************************************************************)
StatelessPacket ==
    [type |-> "none", version |-> 0, dcid |-> NullCid, scid |-> NullCid,
     versions |-> <<>>, first_byte |-> 0, pad_size |-> 0, secret |-> 0,
     odcid |-> NullCid, token |-> 0, token_length |-> 0, addr_to |-> NullAddr,
     length |-> 0]

picoquic_queue_stateless_packet(w, sp) == [w EXCEPT !.sp = Append(@, sp)]

(* picoquic_create_stateless_packet returns NULL when it cannot allocate.   *)
picoquic_create_stateless_packet(x) == ~x.oom

(* The reply with the connection ids in the order of the incoming packet.  *)
picoquic_prepare_version_negotiation_same_ids(w, x, ph) ==
    IF ~picoquic_create_stateless_packet(x) THEN w
    ELSE picoquic_queue_stateless_packet(w,
        [StatelessPacket EXCEPT !.type = "vn", !.version = 0,
            !.dcid = ph.dest_cnx_id, !.scid = ph.srce_cnx_id,
            !.versions = picoquic_supported_versions,
            !.addr_to = x.from,
            !.length = 1 + 4 + 1 + IdLen(ph.srce_cnx_id) + 1 + IdLen(ph.dest_cnx_id)
                         + 4 * Len(picoquic_supported_versions)])

picoquic_prepare_version_negotiation(w, x, ph) ==
    IF ~picoquic_create_stateless_packet(x) THEN w
    ELSE picoquic_queue_stateless_packet(w,
        [StatelessPacket EXCEPT !.type = "vn", !.version = 0,
            !.dcid = ph.srce_cnx_id, !.scid = ph.dest_cnx_id,
            !.versions = picoquic_supported_versions,
            !.addr_to = x.from,
            !.length = 1 + 4 + 1 + IdLen(ph.srce_cnx_id) + 1 + IdLen(ph.dest_cnx_id)
                         + 4 * Len(picoquic_supported_versions)])

(* picoquic_public_uniform_random(n): a value in 0..n-1.                   *)
picoquic_public_uniform_random(x, n) == IF x.rnd = 0 THEN 0 ELSE n - 1

ResetPadSize(x, length) ==
    LET pad_size == U32(length - 17 + Word32)
    IN IF pad_size > 20 THEN picoquic_public_uniform_random(x, pad_size - 20) + 20
       ELSE 20

picoquic_process_unexpected_cnxid(w, x, length, ph) ==
    IF length > PICOQUIC_RESET_PACKET_MIN_SIZE /\ ph.ptype \in {"phi0", "phi1"}
       /\ picoquic_create_stateless_packet(x)
    THEN picoquic_queue_stateless_packet(w,
            [StatelessPacket EXCEPT !.type = "reset",
                !.first_byte = IF ph.ptype = "phi0" THEN 48 ELSE 112,
                !.pad_size = ResetPadSize(x, length),
                !.secret = ResetSecretOf(ph.dest_cnx_id),
                !.addr_to = x.from,
                !.length = 1 + ResetPadSize(x, length) + PICOQUIC_RESET_SECRET_SIZE])
    ELSE w

picoquic_queue_stateless_retry(w, x, cnx, ph, token, token_length) ==
    LET w1 == [w EXCEPT !.reg[cnx].remote_cnxid = ph.srce_cnx_id]
        c == w1.reg[cnx]
    IN IF ~picoquic_create_stateless_packet(x) THEN w
       ELSE picoquic_queue_stateless_packet(w1,
        [StatelessPacket EXCEPT !.type = "retry",
            !.version = picoquic_supported_versions[c.version_index + 1],
            !.dcid = c.remote_cnxid, !.scid = c.local_cnxid,
            !.odcid = c.initial_cnxid, !.token = token,
            !.token_length = token_length, !.addr_to = x.from,
            !.length = 1 + 4 + 1 + IdLen(c.remote_cnxid) + 1 + IdLen(c.local_cnxid)
                         + 1 + IdLen(c.initial_cnxid) + token_length])

(***************************************************************************)
(* Handlers of the packet types (lines 576-599 and 764-1233).  Each        *)
(* returns the world after the call, the result code and the connection    *)
(* (NoCnx when the handler deleted it).                                    *)
(***************************************************************************)
picoquic_incoming_version_negotiation(w, cnx, seg, ph) ==
    IF ph.dest_cnx_id # w.reg[cnx].local_cnxid \/ ph.vn # 0
    THEN [w |-> w, ret |-> "ok", cnx |-> cnx]
    ELSE LET r == picoquic_reset_cnx_version(w.reg[cnx], seg.versions)
         IN [w |-> [w EXCEPT !.reg[cnx] = r.c], ret |-> r.ret, cnx |-> cnx]

(* The token test on the length of the token alone.                        *)
TokenCheck_length_only(x, seg, ph) ==
    IF ~x.q.check_token THEN "ok"
    ELSE IF x.oom THEN "memory"
    ELSE IF ph.token_length # RETRY_TOKEN_SIZE THEN "retry"
    ELSE "ok"

(* Lines 779-809: the retry token test.                                    *)
TokenCheck(x, seg, ph) ==
    IF ~x.q.check_token THEN "ok"
    ELSE IF x.oom THEN "memory"
    ELSE IF ph.token_length # RETRY_TOKEN_SIZE
            \/ seg.tok # picoquic_get_retry_token(x.from) THEN "retry"
    ELSE "ok"

(* The TLS engine runs when the frames were decoded without error.          *)
TlsAfterFrames(d, cnx, run) ==
    IF d.ret = "ok" /\ run THEN picoquic_tls_stream_process(d.w, cnx) ELSE d

(* The frames are decoded when nothing failed before.                      *)
FramesAfter(w, cnx, seg, ph, ret) ==
    IF ret = "ok" THEN picoquic_decode_frames(w, cnx, seg, ph, ph.epoch)
    ELSE [w |-> w, ret |-> ret]

(* Lines 826-838: a failed first Initial deletes the connection it created. *)
InitialOutcome(t, cnx, new_context_created) ==
    IF (t.ret # "ok" \/ t.w.reg[cnx].cnx_state = "disconnected") /\ new_context_created
    THEN [w |-> [t.w EXCEPT !.reg = picoquic_delete_cnx(@, cnx)],
          ret |-> "connection_deleted", cnx |-> NoCnx]
    ELSE [w |-> t.w, ret |-> t.ret, cnx |-> cnx]

picoquic_incoming_initial(w0, x, cnx, seg, ph, new_context_created) ==
    InitialOutcome(
        TlsAfterFrames(
            FramesAfter(IF TokenCheck(x, seg, ph) = "retry"
                        THEN picoquic_queue_stateless_retry(w0, x, cnx, ph,
                                 picoquic_get_retry_token(x.from), RETRY_TOKEN_SIZE)
                        ELSE w0,
                        cnx, seg, ph, TokenCheck(x, seg, ph)),
            cnx, TRUE),
        cnx, new_context_created)

(* The acceptance of a Retry on the state alone.                           *)
RetryAccepted_state_only(c, seg, ph) == c.cnx_state \in {"client_init_sent", "client_init_resent"}

(* Lines 867-878 and 889-893: the echo checks of a Retry.                  *)
RetryAccepted(c, seg, ph) ==
    /\ c.cnx_state \in {"client_init_sent", "client_init_resent"}
    /\ ph.vn = picoquic_supported_versions[c.version_index + 1]
    /\ ph.pn64 = 0
    /\ IdLen(seg.odcid) = IdLen(c.initial_cnxid)
    /\ ~(IdLen(seg.odcid) + 1 > ph.payload_length)
    /\ seg.odcid = c.initial_cnxid

picoquic_incoming_retry(w, x, cnx, seg, ph) ==
    LET c == w.reg[cnx]
        byte_index == ph.offset + 1 + IdLen(seg.odcid)
        token_length == ph.offset + ph.payload_length - byte_index
    IN IF ~RetryAccepted(c, seg, ph)
       THEN [w |-> w, ret |-> "unexpected_packet", cnx |-> cnx]
       ELSE IF token_length > 0 /\ x.oom
       THEN [w |-> w, ret |-> "memory", cnx |-> cnx]
       ELSE [w |-> [w EXCEPT !.reg[cnx] =
                       picoquic_reset_cnx(
                           [c EXCEPT !.initial_cnxid = ph.srce_cnx_id,
                                     !.retry_token =
                                         IF token_length > 0 THEN seg.tok ELSE 0])],
             ret |-> "retry", cnx |-> cnx]

(* The client handshake starts from any state, or never.                   *)
ClientHandshakeStart_any_state(c) == picoquic_set_cnx_state(c, "client_handshake_start")

ClientHandshakeStart_stay(c) == c

(* Lines 947-951: the first server packet starts the client handshake.     *)
ClientHandshakeStart(c) ==
    IF c.cnx_state \in {"client_init_sent", "client_init_resent"}
    THEN picoquic_set_cnx_state(c, "client_handshake_start") ELSE c

Restricted(c) ==
    c.cnx_state \notin {"client_handshake_start", "client_handshake_progress"}

(* Lines 953-963: the server connection id is latched or compared.         *)
LatchRemoteCnxid(c, ph) ==
    IF c.remote_cnxid = NullCid /\ ~Restricted(c)
    THEN [c EXCEPT !.remote_cnxid = ph.srce_cnx_id] ELSE c

(* No comparison of the source id.                                         *)
RemoteCnxidCheck_none(c, ph) == "ok"

RemoteCnxidCheck(c, ph) ==
    IF ~(c.remote_cnxid = NullCid /\ ~Restricted(c)) /\ c.remote_cnxid # ph.srce_cnx_id
    THEN "cnxid_check" ELSE "ok"

HandlerResult(t, cnx) == [w |-> t.w, ret |-> t.ret, cnx |-> cnx]

(* Lines 973-984: the implicit acknowledgment of the Initial packets.      *)
ServerCleartextOutcome(t, cnx, restricted) ==
    IF ~restricted /\ t.ret = "ok" /\ 2 \in t.w.reg[cnx].keys /\ t.w.reg[cnx].hs_encrypt
    THEN [w |-> [t.w EXCEPT !.reg[cnx] = picoquic_implicit_handshake_ack(@, PC_INITIAL)],
          ret |-> t.ret, cnx |-> cnx]
    ELSE HandlerResult(t, cnx)

ServerCleartextFrames(w0, cnx, seg, ph, c1) ==
    ServerCleartextOutcome(
        TlsAfterFrames(
            FramesAfter([w0 EXCEPT !.reg[cnx] = LatchRemoteCnxid(c1, ph)],
                        cnx, seg, ph, RemoteCnxidCheck(c1, ph)),
            cnx, ~Restricted(c1)),
        cnx, Restricted(c1))

picoquic_incoming_server_cleartext(w0, cnx, seg, ph) ==
    ServerCleartextFrames(w0, cnx, seg, ph, ClientHandshakeStart(w0.reg[cnx]))

(* Lines 1024-1039: the server side handshake is done.  The application's  *)
(* callback returns x.callback; a return other than 0 is a local error     *)
(* (line 1036), and the result of the handler is not changed by it.        *)
HandshakeDone(c, x) ==
    IF x.callback # 0 THEN picoquic_connection_error(c) ELSE c

ClientCleartextOutcome(t, cnx, x) ==
    IF /\ t.ret = "ok"
       /\ ~t.w.reg[cnx].client_mode
       /\ ~t.w.reg[cnx].handshake_done
       /\ t.w.reg[cnx].cnx_state = "server_ready"
       /\ picoquic_is_tls_handshake_complete(t.w.reg[cnx])
    THEN [w |-> [t.w EXCEPT !.reg[cnx] =
                     HandshakeDone(
                         picoquic_implicit_handshake_ack(
                             picoquic_implicit_handshake_ack(
                                 [@ EXCEPT !.handshake_done = TRUE], PC_INITIAL),
                             PC_HANDSHAKE),
                         x),
                            !.cb = Append(@, <<cnx, "ready">>)],
          ret |-> t.ret, cnx |-> cnx]
    ELSE HandlerResult(t, cnx)

picoquic_incoming_client_cleartext(w0, cnx, seg, ph, x) ==
    IF w0.reg[cnx].cnx_state \notin {"server_init", "server_handshake",
                                     "server_almost_ready", "server_ready"}
    THEN [w |-> w0, ret |-> "unexpected_packet", cnx |-> cnx]
    ELSE IF ph.srce_cnx_id # w0.reg[cnx].remote_cnxid
    THEN [w |-> w0, ret |-> "cnxid_check", cnx |-> cnx]
    ELSE ClientCleartextOutcome(
             TlsAfterFrames(picoquic_decode_frames(w0, cnx, seg, ph, ph.epoch), cnx, TRUE),
             cnx, x)

picoquic_incoming_stateless_reset(w, cnx) ==
    [w |-> [w EXCEPT !.reg[cnx] = picoquic_set_cnx_state(@, "disconnected"),
                     !.cb = Append(@, <<cnx, "stateless_reset">>)],
     ret |-> "aead_check", cnx |-> cnx]

(* The frames of a 0-RTT packet decoded without any test.                  *)
picoquic_incoming_0rtt_any(w0, cnx, seg, ph) ==
    HandlerResult(TlsAfterFrames(picoquic_decode_frames(w0, cnx, seg, ph, ph.epoch),
                                 cnx, TRUE),
                  cnx)

picoquic_incoming_0rtt(w0, cnx, seg, ph) ==
    IF ~(ph.dest_cnx_id = w0.reg[cnx].initial_cnxid
         \/ ph.dest_cnx_id = w0.reg[cnx].local_cnxid)
       \/ ph.srce_cnx_id # w0.reg[cnx].remote_cnxid
    THEN [w |-> w0, ret |-> "cnxid_check", cnx |-> cnx]
    ELSE IF w0.reg[cnx].cnx_state \in {"server_almost_ready", "server_ready"}
    THEN IF ph.vn # picoquic_supported_versions[w0.reg[cnx].version_index + 1]
         THEN [w |-> [w0 EXCEPT !.reg[cnx] = picoquic_connection_error(@)],
               ret |-> "detected", cnx |-> cnx]
         ELSE HandlerResult(
                  TlsAfterFrames(picoquic_decode_frames(w0, cnx, seg, ph, ph.epoch),
                                 cnx, TRUE),
                  cnx)
    ELSE [w |-> w0, ret |-> "unexpected_packet", cnx |-> cnx]

(* The address test without the exception made for 0.0.0.0.                *)
AddressChanged_any(c, from) == c.peer_addr # from

(* incoming_encrypted, lines 1107-1233.                                    *)
AddressChanged(c, from) == c.peer_addr # from /\ from # NullAddr

(* The admission of a 1-RTT packet on the path alone.                      *)
OneRttAdmission_path_only(c, ph) == IF ~get_incoming_path(c, ph) THEN "cnxid_check" ELSE "ok"

OneRttAdmission(c, ph) ==
    IF ~get_incoming_path(c, ph) THEN "cnxid_check"
    ELSE IF StateRank(c.cnx_state) < StateRank("client_almost_ready")
    THEN "unexpected_packet"
    ELSE IF c.cnx_state = "disconnected" THEN "unexpected_packet"
    ELSE "ok"

(* A CONNECTION_CLOSE received in Closing always leads to Draining.         *)
ClosingFrames_draining(c, ph, k) ==
    IF k.ret # "ok" THEN c
    ELSE IF k.closing_received THEN picoquic_set_cnx_state(c, "draining")
    ELSE [c EXCEPT !.pkt_ctx[ph.pc].ack_needed = TRUE]

(* Lines 1152-1169: in the closing state only closing frames are looked    *)
(* for.                                                                    *)
ClosingFrames(c, ph, k) ==
    IF k.ret # "ok" THEN c
    ELSE IF k.closing_received
    THEN picoquic_set_cnx_state(c, IF c.client_mode THEN "disconnected" ELSE "draining")
    ELSE [c EXCEPT !.pkt_ctx[ph.pc].ack_needed = TRUE]

(* Lines 1177-1217: the peer address and the count of received bytes.      *)
ReceivedFrom(c, x, ph) ==
    [c EXCEPT !.peer_addr = IF AddressChanged(c, x.from) THEN x.from ELSE @,
              !.challenge = IF AddressChanged(c, x.from) THEN 1 + x.rnd ELSE @,
              !.challenge_verified = IF AddressChanged(c, x.from) THEN FALSE ELSE @,
              !.challenge_time = IF AddressChanged(c, x.from)
                                 THEN x.now + c.retransmit_timer ELSE @,
              !.received = @ + ph.offset + ph.payload_length + AEAD_TAG]

(* Lines 1148-1222: the frames of a 1-RTT packet that was admitted.        *)
EncryptedFrames(w0, x, cnx, seg, ph) ==
    IF StateRank(w0.reg[cnx].cnx_state) >= StateRank("closing_received")
    THEN IF w0.reg[cnx].cnx_state = "closing"
         THEN [w |-> [w0 EXCEPT !.reg[cnx] =
                         ClosingFrames(@, ph, picoquic_decode_closing_frames(seg))],
               ret |-> picoquic_decode_closing_frames(seg).ret]
         ELSE [w |-> w0, ret |-> "unexpected_packet"]
    ELSE picoquic_decode_frames([w0 EXCEPT !.reg[cnx] = ReceivedFrom(@, x, ph)],
                                cnx, seg, ph, ph.epoch)

incoming_encrypted(w0, x, cnx, seg, ph) ==
    IF OneRttAdmission(w0.reg[cnx], ph) # "ok"
    THEN [w |-> w0, ret |-> OneRttAdmission(w0.reg[cnx], ph), cnx |-> cnx]
    ELSE HandlerResult(TlsAfterFrames(EncryptedFrames(w0, x, cnx, seg, ph), cnx, TRUE),
                       cnx)

(***************************************************************************)
(* picoquic_incoming_segment (lines 1253-1459).                            *)
(***************************************************************************)
(* Lines 1335-1366: an Initial packet for a known connection.              *)
IncomingInitialSegment(w0, x, cnx, seg, ph, new_context_created) ==
    LET c0 == w0.reg[cnx]
        latch == c0.remote_cnxid = NullCid
        w1 == IF latch THEN [w0 EXCEPT !.reg[cnx].remote_cnxid = ph.srce_cnx_id] ELSE w0
    IN IF ~get_incoming_path(c0, ph) THEN [w |-> w0, ret |-> "detected", cnx |-> cnx]
       ELSE IF ~latch /\ c0.remote_cnxid # ph.srce_cnx_id
       THEN [w |-> w0, ret |-> "unexpected_packet", cnx |-> cnx]
       ELSE IF ~c0.client_mode
       THEN picoquic_incoming_initial(
                [w1 EXCEPT !.reg[cnx].odcid = ph.dest_cnx_id],
                x, cnx, seg, ph, new_context_created)
       ELSE picoquic_incoming_server_cleartext(w1, cnx, seg, ph)

(* Lines 1321-1396: the switch on the packet type.                         *)
DispatchByType(w, x, cnx, seg, ph, new_context_created) ==
    CASE ph.ptype = "vn" ->
            IF w.reg[cnx].cnx_state = "client_init_sent"
            THEN picoquic_incoming_version_negotiation(w, cnx, seg, ph)
            ELSE [w |-> w, ret |-> "detected", cnx |-> cnx]
      [] ph.ptype = "initial" ->
            IncomingInitialSegment(w, x, cnx, seg, ph, new_context_created)
      [] ph.ptype = "retry" -> picoquic_incoming_retry(w, x, cnx, seg, ph)
      [] ph.ptype = "handshake" ->
            IF w.reg[cnx].client_mode
            THEN picoquic_incoming_server_cleartext(w, cnx, seg, ph)
            ELSE picoquic_incoming_client_cleartext(w, cnx, seg, ph, x)
      [] ph.ptype = "0rtt" -> picoquic_incoming_0rtt(w, cnx, seg, ph)
      [] ph.ptype \in {"phi0", "phi1"} -> incoming_encrypted(w, x, cnx, seg, ph)
      [] OTHER -> [w |-> w, ret |-> "detected", cnx |-> cnx]

(* Lines 1296-1309: no connection context.                                 *)
NoContext(w, x, length, ph) ==
    IF ph.version_index < 0 /\ ph.vn # 0
    THEN [w |-> picoquic_prepare_version_negotiation(w, x, ph), ret |-> "ok",
          cnx |-> NoCnx]
    ELSE [w |-> IF ph.dest_cnx_id # NullCid
                THEN picoquic_process_unexpected_cnxid(w, x, length, ph) ELSE w,
          ret |-> "detected", cnx |-> NoCnx]

(* The bookkeeping without the record of the packet number (line 1412).    *)
AfterHandler_no_record(w, cnx, ph, ret) ==
    IF ret = "ok"
    THEN [w |-> IF cnx # NoCnx THEN [w EXCEPT !.woke = @ \cup {cnx}] ELSE w,
          ret |-> 0]
    ELSE IF ret = "duplicate"
    THEN [w |-> IF cnx # NoCnx
                THEN [w EXCEPT !.reg[cnx].pkt_ctx[ph.pc].ack_needed = TRUE] ELSE w,
          ret |-> -1]
    ELSE [w |-> w, ret |-> -1]

(* The bookkeeping that records the packet number whatever the type.       *)
AfterHandler_any_type(w, cnx, ph, ret) ==
    IF ret = "ok"
    THEN [w |-> IF cnx # NoCnx
                THEN [w EXCEPT !.reg[cnx] = picoquic_record_pn_received(@, ph.pc, ph.pn64),
                               !.woke = @ \cup {cnx}]
                ELSE w,
          ret |-> 0]
    ELSE AfterHandler_no_record(w, cnx, ph, ret)

(* Lines 1405-1445: bookkeeping after the handler, and the result.         *)
AfterHandler(w, cnx, ph, ret) ==
    IF ret = "ok"
    THEN LET w1 == IF cnx # NoCnx /\ w.reg[cnx].cnx_state # "disconnected"
                      /\ ph.ptype # "vn"
                   THEN [w EXCEPT !.reg[cnx] =
                            picoquic_record_pn_received(@, ph.pc, ph.pn64)]
                   ELSE w
         IN [w |-> IF cnx # NoCnx THEN [w1 EXCEPT !.woke = @ \cup {cnx}] ELSE w1,
             ret |-> 0]
    ELSE IF ret = "duplicate"
    THEN [w |-> IF cnx # NoCnx
                THEN [w EXCEPT !.reg[cnx].pkt_ctx[ph.pc].ack_needed = TRUE] ELSE w,
          ret |-> -1]
    ELSE [w |-> w, ret |-> -1]

(* Lines 1290-1403: the handler of the segment.  p is the result of        *)
(* picoquic_parse_header_and_decrypt, w1 the world it leaves.               *)
HandleSegment(w1, x, seg, length, p) ==
    IF p.ret = "ok"
    THEN IF p.cnx = NoCnx THEN NoContext(w1, x, length, p.ph)
         ELSE DispatchByType(w1, x, p.cnx, seg, p.ph, p.new_context_created)
    ELSE IF p.ret = "stateless_reset"
    THEN picoquic_incoming_stateless_reset(w1, p.cnx)
    ELSE [w |-> w1, ret |-> p.ret, cnx |-> p.cnx]

(* What picoquic_incoming_segment returns, and the record of the call: the *)
(* registry it started from, the header and the locals of                  *)
(* picoquic_parse_header_and_decrypt, the result code before it is mapped  *)
(* to -1, the number of calls of the frame decoder and of the TLS engine    *)
(* made for the segment, and the stateless packets queued for it.          *)
SegmentResult(w0, p, length, h, a) ==
    [w |-> a.w, ret |-> a.ret, consumed |-> p.consumed,
     new_context_created |-> p.new_context_created,
     ev |-> [reg |-> w0.reg, ptype |-> p.ph.ptype, ph |-> p.ph, parse |-> p.ret,
             decoded_length |-> p.decoded_length,
             already_received |-> p.already_received,
             code |-> h.ret, cnx |-> p.cnx, length |-> length,
             consumed |-> p.consumed, ret |-> a.ret,
             ndec |-> Len(a.w.dec) - Len(w0.dec),
             ntls |-> Len(a.w.tls) - Len(w0.tls),
             sp |-> SubSeq(a.w.sp, Len(w0.sp) + 1, Len(a.w.sp))]]

SegmentHandled(w0, p, length, h) ==
    SegmentResult(w0, p, length, h, AfterHandler(h.w, h.cnx, p.ph, h.ret))

SegmentParsed(w0, x, seg, length, p) ==
    SegmentHandled(w0, p, length,
                   HandleSegment([w0 EXCEPT !.reg = p.reg], x, seg, length, p))

picoquic_incoming_segment(w0, x, seg, seglen, length, packet_length, dtail) ==
    SegmentParsed(w0, x, seg, length,
        picoquic_parse_header_and_decrypt(x.q, x.oom, w0.reg, seg, seglen, length,
                                          packet_length, x.from, dtail))

(***************************************************************************)
(* picoquic_incoming_packet (lines 1461-1492): the loop over the coalesced *)
(* segments.  A segment that was consumed exactly is followed by the next  *)
(* segment of the datagram; a packet that extends to the end of the        *)
(* datagram ends the loop.                                                 *)
(***************************************************************************)
RECURSIVE SumLen(_)
SumLen(segs) == IF segs = <<>> THEN 0 ELSE Head(segs).len + SumLen(Tail(segs))

EmptyCalls ==
    [sp |-> <<>>, cb |-> <<>>, dec |-> <<>>, tls |-> <<>>, woke |-> {}]

World(reg) == [reg |-> reg] @@ EmptyCalls

RECURSIVE SegmentLoop(_, _, _, _, _, _, _)
RECURSIVE AfterSegment(_, _, _, _, _, _)

(* Lines 1479-1489: one iteration of the loop.                             *)
SegmentLoop(w, x, segs, k, consumed_index, evs, ncc) ==
    IF ~(consumed_index < SumLen(segs)) \/ k > Len(segs)
    THEN [w |-> w, evs |-> evs, new_context_created |-> ncc,
          aligned |-> ~(consumed_index < SumLen(segs))]
    ELSE AfterSegment(x, segs, k, consumed_index, evs,
             picoquic_incoming_segment(w, x, segs[k], segs[k].len,
                                       SumLen(segs) - consumed_index, SumLen(segs),
                                       segs[Len(segs)].tail))

(* The loop that returns after the first segment.                          *)
AfterSegment_first_only(x, segs, k, consumed_index, evs, r) ==
    [w |-> r.w, evs |-> Append(evs, r.ev),
     new_context_created |-> r.new_context_created, aligned |-> TRUE]

(* The loop without the break of line 1487.                                *)
AfterSegment_continue(x, segs, k, consumed_index, evs, r) ==
    IF r.consumed = segs[k].len
    THEN SegmentLoop(r.w, x, segs, k + 1, consumed_index + r.consumed,
                     Append(evs, r.ev), r.new_context_created)
    ELSE [w |-> r.w, evs |-> Append(evs, r.ev),
          new_context_created |-> r.new_context_created,
          aligned |-> ~(consumed_index + r.consumed < SumLen(segs))]

(* Lines 1483-1488: a segment that fails ends the loop.                    *)
AfterSegment(x, segs, k, consumed_index, evs, r) ==
    IF r.ret # 0
    THEN [w |-> r.w, evs |-> Append(evs, r.ev),
          new_context_created |-> r.new_context_created, aligned |-> TRUE]
    ELSE IF r.consumed = segs[k].len
    THEN SegmentLoop(r.w, x, segs, k + 1, consumed_index + r.consumed,
                     Append(evs, r.ev), r.new_context_created)
    ELSE [w |-> r.w, evs |-> Append(evs, r.ev),
          new_context_created |-> r.new_context_created,
          aligned |-> ~(consumed_index + r.consumed < SumLen(segs))]

PacketResult(r) ==
    [reg |-> r.w.reg, sp |-> r.w.sp, cb |-> r.w.cb, dec |-> r.w.dec,
     tls |-> r.w.tls, woke |-> r.w.woke, evs |-> r.evs,
     new_context_created |-> r.new_context_created, aligned |-> r.aligned,
     ret |-> 0]

picoquic_incoming_packet(reg, x, segs) ==
    PacketResult(SegmentLoop(World(reg), x, segs, 1, 0, <<>>, FALSE))

(***************************************************************************)
(* The inputs: the segments an endpoint can receive.  The identifiers are  *)
(* those of the connection of the first slot (InitialCid, the local id and *)
(* PeerCid, the id the peer chose), an id of no connection (UnknownCid)    *)
(* and a second id of the peer (OtherCid).                                 *)
(***************************************************************************)
InitialCid == 5
PeerCid == 7
OtherCid == 8
UnknownCid == 9
PeerAddr == 1
OtherAddr == 2
PlenSmall == 60
PlenBig == 1200
PlenTiny == 10
ShortLenSmall == 30
ShortLenBig == 70

BaseSeg ==
    [fixed |-> TRUE, long |-> TRUE, ltype |-> 0,
     vn |-> picoquic_supported_versions[1],
     dcid |-> InitialCid, scid |-> PeerCid, tok |-> 0, toklen |-> 0,
     plen |-> PlenBig, len |-> 0, pnl |-> 1, pn |-> 0, auth |-> TRUE,
     kp |-> 0, spin |-> 0, frames |-> "crypto", tail |-> 0,
     odcid |-> NullCid, versions |-> {}]

LongHeaderLen(seg) == 6 + IdLen(seg.dcid) + 1 + IdLen(seg.scid)

(* The wire length of a segment: header, length fields and payload.        *)
WireLen(seg, actual) ==
    IF ~seg.fixed \/ ~seg.long THEN actual
    ELSE IF seg.vn = 0 THEN LongHeaderLen(seg) + 4 * Cardinality(seg.versions)
    ELSE IF seg.ltype = 3
    THEN LongHeaderLen(seg) + 1 + IdLen(seg.odcid) + seg.toklen
    ELSE LongHeaderLen(seg)
         + (IF seg.ltype = 0 THEN picoquic_varint_length(seg.toklen) + seg.toklen ELSE 0)
         + picoquic_varint_length(seg.plen) + actual

Sized(seg) == [seg EXCEPT !.len = WireLen(seg, seg.plen)]

Initials(q) ==
    LET b == BaseSeg
    IN {Sized(b),
        Sized([b EXCEPT !.dcid = LocalCidOf(q, 1)]),
        Sized([b EXCEPT !.dcid = UnknownCid]),
        Sized([b EXCEPT !.scid = OtherCid]),
        Sized([b EXCEPT !.pn = MaxPn]),
        Sized([b EXCEPT !.auth = FALSE]),
        Sized([b EXCEPT !.dcid = UnknownCid, !.auth = FALSE]),
        Sized([b EXCEPT !.frames = "bad"]),
        Sized([b EXCEPT !.dcid = UnknownCid, !.frames = "bad"]),
        Sized([b EXCEPT !.plen = PlenSmall]),
        Sized([b EXCEPT !.plen = PlenSmall, !.dcid = UnknownCid]),
        Sized([b EXCEPT !.plen = PlenSmall, !.auth = FALSE]),
        Sized([b EXCEPT !.plen = PlenTiny, !.dcid = UnknownCid]),
        Sized([b EXCEPT !.tok = picoquic_get_retry_token(PeerAddr),
                        !.toklen = RETRY_TOKEN_SIZE]),
        Sized([b EXCEPT !.tok = picoquic_get_retry_token(PeerAddr),
                        !.toklen = RETRY_TOKEN_SIZE, !.dcid = UnknownCid]),
        Sized([b EXCEPT !.tok = picoquic_get_retry_token(PeerAddr),
                        !.toklen = RETRY_TOKEN_SIZE + 1]),
        Sized([b EXCEPT !.tok = 999, !.toklen = RETRY_TOKEN_SIZE]),
        [Sized([b EXCEPT !.plen = PlenSmall]) EXCEPT !.plen = 16000]}

Handshakes(q) ==
    LET b == [BaseSeg EXCEPT !.ltype = 2, !.dcid = LocalCidOf(q, 1), !.plen = PlenSmall]
    IN {Sized(b),
        Sized([b EXCEPT !.scid = OtherCid]),
        Sized([b EXCEPT !.pn = MaxPn]),
        Sized([b EXCEPT !.auth = FALSE]),
        Sized([b EXCEPT !.frames = "bad"]),
        Sized([b EXCEPT !.dcid = UnknownCid])}

ZeroRtts(q) ==
    LET b == [BaseSeg EXCEPT !.ltype = 1, !.frames = "data", !.plen = PlenSmall]
    IN {Sized(b),
        Sized([b EXCEPT !.dcid = LocalCidOf(q, 1)]),
        Sized([b EXCEPT !.scid = OtherCid]),
        Sized([b EXCEPT !.vn = picoquic_supported_versions[2]]),
        Sized([b EXCEPT !.auth = FALSE])}

Retries(q) ==
    LET b == [BaseSeg EXCEPT !.ltype = 3, !.dcid = LocalCidOf(q, 1), !.scid = OtherCid,
                             !.odcid = InitialCid, !.tok = 300, !.toklen = 8,
                             !.plen = 0, !.frames = "data"]
    IN {Sized(b),
        Sized([b EXCEPT !.odcid = UnknownCid]),
        Sized([b EXCEPT !.vn = picoquic_supported_versions[2]]),
        Sized([b EXCEPT !.tok = 0, !.toklen = 0])}

VersionNegotiations(q) ==
    LET b == [BaseSeg EXCEPT !.vn = 0, !.dcid = LocalCidOf(q, 1), !.plen = 0,
                             !.frames = "data",
                             !.versions = {picoquic_supported_versions[2]}]
    IN {Sized(b),
        Sized([b EXCEPT !.versions = {2570}]),
        Sized([b EXCEPT !.dcid = UnknownCid])}

UnsupportedVersions(q) ==
    LET b == [BaseSeg EXCEPT !.vn = 2570, !.plen = PlenSmall]
    IN {Sized(b),
        Sized([b EXCEPT !.dcid = LocalCidOf(q, 1), !.scid = NullCid]),
        Sized([b EXCEPT !.ltype = 2, !.dcid = UnknownCid])}

Shorts(q) ==
    LET b == [BaseSeg EXCEPT !.long = FALSE, !.dcid = LocalCidOf(q, 1),
                             !.scid = NullCid, !.frames = "data", !.plen = 0,
                             !.len = ShortLenBig]
        u == [b EXCEPT !.dcid = UnknownCid, !.auth = FALSE]
    IN {b,
        [b EXCEPT !.pn = MaxPn],
        [b EXCEPT !.kp = 1],
        [b EXCEPT !.auth = FALSE],
        [b EXCEPT !.frames = "close"],
        [b EXCEPT !.frames = "bad"],
        [b EXCEPT !.len = ShortLenSmall],
        [b EXCEPT !.auth = FALSE, !.tail = ResetSecretOf(LocalCidOf(q, 1))],
        u,
        [u EXCEPT !.kp = 1],
        [u EXCEPT !.len = ShortLenSmall],
        [u EXCEPT !.len = PICOQUIC_RESET_PACKET_MIN_SIZE],
        [u EXCEPT !.tail = ResetSecretOf(LocalCidOf(q, 1))],
        [u EXCEPT !.tail = ResetSecretOf(LocalCidOf(q, 1)),
                  !.len = PICOQUIC_RESET_PACKET_MIN_SIZE],
        [u EXCEPT !.tail = ResetSecretOf(LocalCidOf(q, 1)), !.len = ShortLenSmall],
        [u EXCEPT !.tail = ResetSecretOf(UnknownCid)]}

Garbage == {[BaseSeg EXCEPT !.fixed = FALSE, !.len = ShortLenSmall, !.plen = 0]}

Segments(q) ==
    Initials(q) \cup Handshakes(q) \cup ZeroRtts(q) \cup Retries(q)
        \cup VersionNegotiations(q) \cup UnsupportedVersions(q) \cup Shorts(q)
        \cup Garbage

(* The segments that follow the first one in a coalesced datagram.         *)
TailSegments(q) ==
    {Sized(BaseSeg),
     Sized([BaseSeg EXCEPT !.ltype = 2, !.dcid = LocalCidOf(q, 1), !.plen = PlenSmall]),
     Sized([BaseSeg EXCEPT !.ltype = 2, !.dcid = LocalCidOf(q, 1), !.plen = PlenBig,
                           !.pn = MaxPn]),
     [BaseSeg EXCEPT !.long = FALSE, !.dcid = LocalCidOf(q, 1), !.scid = NullCid,
                     !.frames = "data", !.plen = 0, !.len = ShortLenBig, !.pn = MaxPn],
     [BaseSeg EXCEPT !.long = FALSE, !.dcid = UnknownCid, !.scid = NullCid,
                     !.auth = FALSE, !.frames = "data", !.plen = 0,
                     !.len = PlenBig]}

RECURSIVE SegSeqs(_, _)
SegSeqs(q, n) ==
    IF n = 1 THEN {<<s>> : s \in Segments(q)}
    ELSE LET shorter == SegSeqs(q, n - 1)
         IN shorter \cup {Append(d, t) : d \in {e \in shorter : Len(e) = n - 1},
                                         t \in TailSegments(q)}

(* A datagram: its segments, its source address, whether the allocations  *)
(* made while it is processed fail, whether it is a second delivery, and   *)
(* the time at which it is handed to picoquic_incoming_packet.             *)
NoDgram == [segs |-> <<>>, from |-> NullAddr, oom |-> FALSE, dup |-> FALSE, now |-> 0]

Datagrams(q) ==
    {[segs |-> d, from |-> a, oom |-> FALSE, dup |-> FALSE, now |-> t] :
         d \in SegSeqs(q, MaxSegs), a \in {PeerAddr, OtherAddr}, t \in 1..MaxTime}
    \cup {[segs |-> <<s>>, from |-> NullAddr, oom |-> FALSE, dup |-> FALSE, now |-> 1] :
              s \in Shorts(q)}
    \cup {[segs |-> <<s>>, from |-> PeerAddr, oom |-> TRUE, dup |-> FALSE, now |-> 1] :
              s \in Initials(q) \cup Retries(q) \cup UnsupportedVersions(q)
                       \cup Shorts(q)}

(***************************************************************************)
(* The state.  quic is the endpoint configuration, cnxs the registry,      *)
(* sp_queue the queue of stateless packets waiting to be sent, dgram the   *)
(* datagram read from the socket, obs what the last call of                *)
(* picoquic_incoming_packet did (pre is the registry it started from, prev *)
(* the segments of the call before it).                                    *)
(***************************************************************************)
Configs ==
    {[local_ctx_length |-> CidLen, check_token |-> FALSE],
     [local_ctx_length |-> CidLen, check_token |-> TRUE],
     [local_ctx_length |-> 0, check_token |-> FALSE]}

(* A connection at rest in a given state: the keys it holds and the packet *)
(* number spaces in which it has received packet 0.  Before the handshake  *)
(* completes it has packets outstanding in these spaces, and a client has  *)
(* its Initial outstanding from the start.                                 *)
Profiles ==
    {[state |-> "client_init_sent", client |-> TRUE, keys |-> {0}, remote |-> NullCid,
      spaces |-> {}],
     [state |-> "client_init_resent", client |-> TRUE, keys |-> {0}, remote |-> NullCid,
      spaces |-> {}],
     [state |-> "client_handshake_start", client |-> TRUE, keys |-> {0, 2},
      remote |-> PeerCid, spaces |-> {PC_INITIAL}],
     [state |-> "client_handshake_progress", client |-> TRUE, keys |-> {0, 2},
      remote |-> PeerCid, spaces |-> {PC_INITIAL}],
     [state |-> "client_almost_ready", client |-> TRUE, keys |-> {0, 2, 3},
      remote |-> PeerCid, spaces |-> {PC_INITIAL, PC_HANDSHAKE}],
     [state |-> "server_init", client |-> FALSE, keys |-> {0}, remote |-> PeerCid,
      spaces |-> {}],
     [state |-> "server_handshake", client |-> FALSE, keys |-> {0, 2},
      remote |-> PeerCid, spaces |-> {PC_INITIAL}],
     [state |-> "server_almost_ready", client |-> FALSE, keys |-> {0, 1, 2, 3},
      remote |-> PeerCid, spaces |-> {PC_INITIAL, PC_HANDSHAKE}]}
    \cup {[state |-> st, client |-> cl,
           keys |-> IF cl THEN {0, 2, 3} ELSE {0, 1, 2, 3}, remote |-> PeerCid,
           spaces |-> {PC_INITIAL, PC_HANDSHAKE, PC_APPLICATION}] :
              st \in {"closing_received", "closing", "draining", "disconnected"},
              cl \in BOOLEAN}
    \cup {[state |-> "client_ready", client |-> TRUE, keys |-> {0, 2, 3},
           remote |-> PeerCid, spaces |-> {PC_INITIAL, PC_HANDSHAKE, PC_APPLICATION}],
          [state |-> "server_ready", client |-> FALSE, keys |-> {0, 1, 2, 3},
           remote |-> PeerCid, spaces |-> {PC_INITIAL, PC_HANDSHAKE, PC_APPLICATION}]}

CnxOfProfile(q, p, seen) ==
    [NewServerCnx(q, 1, InitialCid, p.remote, PeerAddr, picoquic_supported_versions[1])
        EXCEPT !.cnx_state = p.state, !.client_mode = p.client, !.keys = p.keys,
               !.hs_encrypt = 2 \in p.keys,
               !.tls_complete = 3 \in p.keys /\ p.state # "server_almost_ready",
               !.handshake_done = 3 \in p.keys /\ p.state # "server_almost_ready",
               !.pkt_ctx = [pc \in {PC_INITIAL, PC_APPLICATION, PC_HANDSHAKE} |->
                               IF seen /\ pc \in p.spaces
                               THEN [EmptyPktCtx EXCEPT !.received = {0}]
                               ELSE [EmptyPktCtx EXCEPT !.outstanding =
                                        /\ 3 \notin p.keys
                                        /\ pc \in p.spaces \/ (pc = PC_INITIAL /\ p.client)]]]

InitialRegistries(q) ==
    {[i \in Slots |-> FreeSlot]}
    \cup {[i \in Slots |-> IF i = 1 THEN CnxOfProfile(q, p, seen) ELSE FreeSlot] :
              p \in Profiles, seen \in BOOLEAN}

NoObs ==
    [pre |-> <<>>, prev |-> <<>>, sp |-> <<>>, cb |-> <<>>, dec |-> <<>>, tls |-> <<>>, woke |-> {},
     evs |-> <<>>, new_context_created |-> FALSE, aligned |-> TRUE, ret |-> 0]

(* No call of the packet number function is under observation.            *)
NoPnCall == [highest |-> 0, n |-> 0, delta |-> 0, pn |-> 0, pn64 |-> 0, called |-> FALSE]

(* No call of the header parser is under observation.                      *)
NoPhCall == [seg |-> BaseSeg, length |-> 0, ret |-> 0, ph |-> ZeroHeader, cnx |-> NoCnx, called |-> FALSE]

Init ==
    /\ quic \in Configs
    /\ cnxs \in InitialRegistries(quic)
    /\ sp_queue = <<>>
    /\ phase = "idle"
    /\ dgram = NoDgram
    /\ obs = NoObs
    /\ calls = 0
    /\ pncall = NoPnCall
    /\ phcall = NoPhCall

(* A datagram arrives on the socket.                                       *)
ReceiveDatagram ==
    /\ phase = "idle"
    /\ calls < MaxDatagrams
    /\ Len(sp_queue) < MaxQueue
    /\ \E d \in Datagrams(quic) : dgram' = d
    /\ phase' = "received"
    /\ calls' = calls + 1
    /\ UNCHANGED <<pncall, phcall, quic, cnxs, sp_queue, obs>>

(* What the application's callback may return: 0, or an error.            *)
CallbackReturns == {0, -1}

(* The network delivers the last datagram once more.                       *)
ReceiveDuplicate ==
    /\ phase = "idle"
    /\ calls >= 1
    /\ calls < MaxDatagrams + MaxDuplicates
    /\ Len(sp_queue) < MaxQueue
    /\ dgram' = [dgram EXCEPT !.dup = TRUE]
    /\ phase' = "received"
    /\ calls' = calls + 1
    /\ UNCHANGED <<pncall, phcall, quic, cnxs, sp_queue, obs>>

(* What the call leaves behind: the registry, the stateless packets it     *)
(* queued, and the observation of the call.                                *)
Completed(r) ==
    /\ cnxs' = r.reg
    /\ sp_queue' = sp_queue \o r.sp
    /\ obs' = [pre |-> cnxs, prev |-> obs.evs, sp |-> r.sp, cb |-> r.cb, dec |-> r.dec,
               tls |-> r.tls, woke |-> r.woke, evs |-> r.evs,
               new_context_created |-> r.new_context_created,
               aligned |-> r.aligned, ret |-> r.ret]

(* picoquic_incoming_packet runs to completion on the datagram.            *)
IncomingPacket ==
    /\ phase = "received"
    /\ \E rnd \in {0, 1}, callback \in CallbackReturns :
         Completed(picoquic_incoming_packet(cnxs,
             [q |-> quic, from |-> dgram.from, oom |-> dgram.oom, rnd |-> rnd,
              callback |-> callback, now |-> dgram.now],
             dgram.segs))
    /\ phase' = "done"
    /\ UNCHANGED <<pncall, phcall, quic, dgram, calls>>

(* The caller goes back to the socket; the receive buffer keeps the bytes. *)
Return ==
    /\ phase = "done"
    /\ phase' = "idle"
    /\ UNCHANGED <<pncall, phcall, quic, cnxs, sp_queue, dgram, obs, calls>>

(* The send loop takes the first stateless packet of the queue.            *)
DequeueStateless ==
    /\ phase = "idle"
    /\ sp_queue # <<>>
    /\ sp_queue' = Tail(sp_queue)
    /\ UNCHANGED <<pncall, phcall, quic, cnxs, phase, dgram, obs, calls>>

Next ==
    \/ ReceiveDatagram
    \/ ReceiveDuplicate
    \/ IncomingPacket
    \/ Return
    \/ DequeueStateless

Spec == Init /\ [][Next]_vars

TypeOK ==
    /\ phase \in {"idle", "received", "done"}
    /\ calls \in 0..(MaxDatagrams + MaxDuplicates)
    /\ obs.aligned

(***************************************************************************)
(* The packet number function on its own.  A call is observed with the     *)
(* largest packet number received so far (highest), the length n in bytes  *)
(* of the packet number on the wire, and the packet number the peer sent,  *)
(* highest + delta, of which the wire carries the low 8n bits.  The        *)
(* references lie around the multiples of the window, where the function   *)
(* changes branch; one byte packet numbers are drawn exhaustively.         *)
(***************************************************************************)
MaxPnBlocks == 2

PnLengths == 1..4

HalfWindow(n) == PnWindow(n) \div 2

PnEdges(n) ==
    IF n = 1 THEN 0..(PnWindow(n) - 1)
    ELSE {0, 1, HalfWindow(n) - 1, HalfWindow(n), HalfWindow(n) + 1,
          PnWindow(n) - 2, PnWindow(n) - 1}

PnReferences(n) == {b * PnWindow(n) + r : b \in 0..MaxPnBlocks, r \in PnEdges(n)}

PnDeltas(n) ==
    IF n = 1 THEN (0 - HalfWindow(n))..HalfWindow(n)
    ELSE {0 - HalfWindow(n), 1 - HalfWindow(n), -1, 0, 1,
          HalfWindow(n) - 1, HalfWindow(n)}

PnInit ==
    /\ quic = [local_ctx_length |-> CidLen, check_token |-> FALSE]
    /\ cnxs = [i \in Slots |-> FreeSlot]
    /\ sp_queue = <<>>
    /\ phase = "idle"
    /\ dgram = NoDgram
    /\ obs = NoObs
    /\ calls = 0
    /\ phcall = NoPhCall
    /\ \E n \in PnLengths : \E h \in PnReferences(n) : \E d \in PnDeltas(n) :
         /\ h + d >= 0
         /\ pncall = [highest |-> h, n |-> n, delta |-> d, pn |-> (h + d) % PnWindow(n),
                      pn64 |-> 0, called |-> FALSE]

(* picoquic_get_packet_number64 is called as picoquic_decrypt_packet calls *)
(* it (line 403), with the mask of an n byte packet number.                *)
GetPacketNumber64 ==
    /\ ~pncall.called
    /\ pncall.n \in PnLengths
    /\ pncall' = [pncall EXCEPT
                     !.pn64 = picoquic_get_packet_number64(pncall.highest, PnMask(pncall.n),
                                                           pncall.pn),
                     !.called = TRUE]
    /\ UNCHANGED <<quic, cnxs, sp_queue, phase, dgram, obs, calls, phcall>>

PnNext == GetPacketNumber64

PnSpec == PnInit /\ [][PnNext]_vars

(***************************************************************************)
(* The header parser on its own.  A call is observed with the bytes of a   *)
(* segment and a length that may cut the segment short anywhere in its     *)
(* header, or leave it whole, against a registry at rest.                  *)
(***************************************************************************)
MaxTruncation == 44

ParseLengths(seg) == (0..MaxTruncation) \cup {seg.len - 1, seg.len, seg.len + 1}

(* Initials whose token length does not fit the 32 bits of ph->offset      *)
(* (line 147): the sum wraps to an index inside the destination id, to the *)
(* index after the varint, to a short token after it, and, for the largest *)
(* varint, to an index inside the varint.  The token itself is not in the  *)
(* datagram; plen is the varint that the bytes at the wrapped index, which *)
(* the sender chooses, encode.                                             *)
WrappedTokens(q) ==
    LET b == [BaseSeg EXCEPT !.dcid = UnknownCid, !.plen = PlenTiny, !.len = PlenBig]
    IN {[b EXCEPT !.toklen = Word32 - (LongHeaderLen(b) + 4) + 7],
        [b EXCEPT !.toklen = Word32],
        [b EXCEPT !.toklen = Word32 + RETRY_TOKEN_SIZE],
        [b EXCEPT !.toklen = Word64 - 1]}

ParseInit ==
    /\ quic \in Configs
    /\ cnxs \in InitialRegistries(quic)
    /\ sp_queue = <<>>
    /\ phase = "idle"
    /\ dgram = NoDgram
    /\ obs = NoObs
    /\ calls = 0
    /\ pncall = NoPnCall
    /\ \E seg \in Segments(quic) \cup WrappedTokens(quic) :
       \E length \in ParseLengths(seg) :
         phcall = [seg |-> seg, length |-> length, ret |-> 0, ph |-> ZeroHeader,
                   cnx |-> NoCnx, called |-> FALSE]

(* Index after the last byte that the parsing of the two connection ids    *)
(* reads (lines 73-89); 0 when the parser does not come that far.          *)
ConnectionIdsEnd(seg, length) ==
    IF length = 0 \/ ~seg.fixed \/ ~seg.long \/ length < 7 THEN 0
    ELSE IF 6 + IdLen(seg.dcid) + 1 > length THEN 6
    ELSE 6 + IdLen(seg.dcid) + 1 + IdLen(seg.scid)

(* picoquic_parse_packet_header is called as                               *)
(* picoquic_parse_header_and_decrypt calls it (line 459).                  *)
ParseHeader ==
    /\ ~phcall.called
    /\ \E p \in {picoquic_parse_packet_header(quic, cnxs, phcall.seg, phcall.length,
                                              PeerAddr, NoCnx, 1)} :
         phcall' = [phcall EXCEPT !.ret = p.ret, !.ph = p.ph, !.cnx = p.cnx,
                                  !.called = TRUE]
    /\ UNCHANGED <<quic, cnxs, sp_queue, phase, dgram, obs, calls, pncall>>

ParseNext == ParseHeader

ParseSpec == ParseInit /\ [][ParseNext]_vars

(***************************************************************************)
(* The handlers do not rely on the TLS engine holding back the 1-RTT keys  *)
(* until the state has moved on (lines 1126-1128 test the state of a       *)
(* packet that was decrypted).  EarlyKeysSpec is the reception path        *)
(* started from the registries of Spec and from those in which a           *)
(* connection that has not reached the almost-ready states already holds   *)
(* the keys of every epoch.                                                *)
(***************************************************************************)
EarlyKeyProfiles ==
    {[state |-> st, client |-> TRUE, keys |-> {0, 1, 2, 3}, remote |-> NullCid, spaces |-> {}] :
         st \in {"client_init", "client_init_sent", "client_init_resent"}}
    \cup {[state |-> st, client |-> TRUE, keys |-> {0, 1, 2, 3}, remote |-> PeerCid, spaces |-> {PC_INITIAL}] :
              st \in {"client_handshake_start", "client_handshake_progress"}}
    \cup {[state |-> st, client |-> FALSE, keys |-> {0, 1, 2, 3}, remote |-> PeerCid, spaces |-> {PC_INITIAL}] :
              st \in {"server_init", "server_handshake"}}

EarlyKeyRegistries(q) ==
    {[i \in Slots |-> IF i = 1
                      THEN [CnxOfProfile(q, p, seen) EXCEPT !.tls_complete = FALSE,
                                                            !.handshake_done = FALSE]
                      ELSE FreeSlot] :
         p \in EarlyKeyProfiles, seen \in BOOLEAN}

EarlyKeysInit ==
    /\ quic \in Configs
    /\ cnxs \in InitialRegistries(quic) \cup EarlyKeyRegistries(quic)
    /\ sp_queue = <<>>
    /\ phase = "idle"
    /\ dgram = NoDgram
    /\ obs = NoObs
    /\ calls = 0
    /\ pncall = NoPnCall
    /\ phcall = NoPhCall

EarlyKeysSpec == EarlyKeysInit /\ [][Next]_vars

(***************************************************************************)
(* picoquic_incoming_server_cleartext takes the connection as it is given  *)
(* (lines 948-963 read its state and the remote id of path 0 and assume    *)
(* nothing about how they came about).  LatchedSpec is the reception path  *)
(* started from the registries in which a client connection, in each of    *)
(* the client states, holds a remote connection id and the keys of every   *)
(* epoch, so that each of its packets is decrypted and handed over.        *)
(***************************************************************************)
LatchedRegistries(q) ==
    {[i \in Slots |->
         IF i = 1
         THEN [CnxOfProfile(q, [state |-> st, client |-> TRUE, keys |-> {0, 1, 2, 3},
                                remote |-> PeerCid, spaces |-> {PC_INITIAL}], seen)
                  EXCEPT !.tls_complete = st \in {"client_almost_ready", "client_ready"},
                         !.handshake_done = st \in {"client_almost_ready", "client_ready"}]
         ELSE FreeSlot] :
         st \in {"client_init", "client_init_sent", "client_init_resent",
                 "client_handshake_start", "client_handshake_progress",
                 "client_almost_ready", "client_ready"},
         seen \in BOOLEAN}

LatchedInit ==
    /\ quic \in Configs
    /\ cnxs \in LatchedRegistries(quic)
    /\ sp_queue = <<>>
    /\ phase = "idle"
    /\ dgram = NoDgram
    /\ obs = NoObs
    /\ calls = 0
    /\ pncall = NoPnCall
    /\ phcall = NoPhCall

LatchedSpec == LatchedInit /\ [][Next]_vars

(***************************************************************************)
(* Properties of the reception path.  Events(k) is the k-th call of       *)
(* picoquic_incoming_segment of the last datagram, RegAfter(k) the        *)
(* registry when it returned.                                              *)
(***************************************************************************)
Done == phase = "done"

Events == obs.evs

RegAfter(k) == IF k < Len(obs.evs) THEN obs.evs[k + 1].reg ELSE cnxs

Encrypted == {"initial", "handshake", "0rtt", "phi0", "phi1"}

SegmentErrors ==
    {"aead_check", "duplicate", "unexpected_packet", "cnxid_check", "retry",
     "detected", "initial_too_short"}

AuthenticatedDuplicate(k) ==
    /\ Events[k].ptype \in Encrypted
    /\ Events[k].parse # "-1"
    /\ Events[k].cnx # NoCnx
    /\ InUse(Events[k].reg, Events[k].cnx)
    /\ dgram.segs[k].auth
    /\ Events[k].decoded_length # AeadFail
    /\ Events[k].ph.pn64
           \in Events[k].reg[Events[k].cnx].pkt_ctx[Events[k].ph.pc].received

(* C2: for an authenticated packet whose reconstructed packet number is    *)
(* already in the receive set of its space, the frame decoder is not       *)
(* invoked and ack_needed of that space is true when                       *)
(* picoquic_incoming_segment returns.                                      *)
C2_DuplicateNotDecoded ==
    Done =>
        \A k \in 1..Len(Events) :
            AuthenticatedDuplicate(k)
                => /\ Events[k].ndec = 0
                   /\ RegAfter(k)[Events[k].cnx].pkt_ctx[Events[k].ph.pc].ack_needed

(* A duplicate in a space in which no acknowledgment was due.              *)
C2_Witness ==
    /\ Done
    /\ \E k \in 1..Len(Events) :
          /\ AuthenticatedDuplicate(k)
          /\ ~Events[k].reg[Events[k].cnx].pkt_ctx[Events[k].ph.pc].ack_needed
          /\ Events[k].code = "duplicate"

(* The last datagram is the second delivery of a 1-RTT packet that the     *)
(* first call accepted for a connection.                                   *)
ValidOneRttTwice ==
    /\ Done
    /\ dgram.dup
    /\ Len(obs.prev) = 1
    /\ obs.prev[1].ptype \in {"phi0", "phi1"}
    /\ obs.prev[1].cnx # NoCnx
    /\ obs.prev[1].ret = 0

(* The connection is as the first call left it, but for ack_needed of the  *)
(* Application space.                                                      *)
SameButAckNeeded ==
    /\ cnxs = [obs.pre EXCEPT ![obs.prev[1].cnx].pkt_ctx[PC_APPLICATION].ack_needed
                                  = TRUE]
    /\ obs.dec = <<>>
    /\ obs.tls = <<>>
    /\ obs.cb = <<>>

(* C3, as stated: feeding the same valid 1-RTT packet twice leaves the     *)
(* connection after the second call as after the first, except that        *)
(* ack_needed of the Application space is true.                            *)
C3_Original == ValidOneRttTwice => SameButAckNeeded

(* C3, amended: the same, provided the first call did not leave the        *)
(* connection Disconnected (a Disconnected connection records no packet    *)
(* number, and the second delivery is dropped without setting ack_needed). *)
C3_DuplicateIdempotent ==
    (ValidOneRttTwice /\ obs.pre[obs.prev[1].cnx].cnx_state # "disconnected")
        => SameButAckNeeded

(* A second delivery that set ack_needed and changed nothing else.         *)
C3_Witness ==
    /\ ValidOneRttTwice
    /\ obs.pre[obs.prev[1].cnx].cnx_state # "disconnected"
    /\ ~obs.pre[obs.prev[1].cnx].pkt_ctx[PC_APPLICATION].ack_needed
    /\ cnxs # obs.pre
    /\ Events[1].code = "duplicate"

(* The last datagram is a short-header packet, long enough to hold a      *)
(* destination id, for which the parser found no connection.               *)
ShortForUnknown ==
    /\ Done
    /\ dgram.segs[1].fixed
    /\ ~dgram.segs[1].long
    /\ Events[1].length >= 1 + quic.local_ctx_length
    /\ IF quic.local_ctx_length > 0
       THEN picoquic_cnx_by_id(obs.pre, Events[1].ph.dest_cnx_id) = NoCnx
       ELSE picoquic_cnx_by_net(obs.pre, dgram.from) = NoCnx

(* The connection bound to the source address of the last datagram, the    *)
(* trailing bytes of the datagram, and whether they are the reset secret   *)
(* of that connection.                                                     *)
ResetOwner == picoquic_cnx_by_net(obs.pre, dgram.from)

DatagramTail == dgram.segs[Len(dgram.segs)].tail

TailIsSecret ==
    ResetOwner # NoCnx /\ DatagramTail = obs.pre[ResetOwner].reset_secret

ResetCallbacks == {j \in 1..Len(obs.cb) : obs.cb[j][2] = "stateless_reset"}

(* C4: a short-header packet of at least the minimum reset size, whose     *)
(* destination id matches no connection, whose source address is that of a *)
(* live connection and whose trailing 16 bytes are the reset secret of     *)
(* that connection, moves the connection to Disconnected and invokes its   *)
(* callback with StatelessReset.                                           *)
C4_StatelessResetDetected ==
    (/\ ShortForUnknown
     /\ Events[1].length >= PICOQUIC_RESET_PACKET_MIN_SIZE
     /\ TailIsSecret
     /\ obs.pre[ResetOwner].cnx_state # "disconnected")
        => /\ cnxs[ResetOwner].cnx_state = "disconnected"
           /\ \E j \in ResetCallbacks : obs.cb[j][1] = ResetOwner

(* C5: a short-header packet for an unknown destination id whose trailing  *)
(* 16 bytes differ from the reset secret of the connection bound to its    *)
(* source address moves no connection to Disconnected and triggers no      *)
(* StatelessReset callback.                                                *)
C5_MasqueradeIgnored ==
    (ShortForUnknown /\ ~TailIsSecret)
        => /\ \A i \in Slots :
                 (InUse(cnxs, i) /\ cnxs[i].cnx_state = "disconnected")
                     => (InUse(obs.pre, i) /\ obs.pre[i].cnx_state = "disconnected")
           /\ ResetCallbacks = {}

(* A packet of the size of a reset, from the address of a live connection, *)
(* with trailing bytes that are a reset secret of another connection id.   *)
C5_Witness ==
    /\ ShortForUnknown
    /\ ~TailIsSecret
    /\ ResetOwner # NoCnx
    /\ obs.pre[ResetOwner].cnx_state # "disconnected"
    /\ DatagramTail # 0
    /\ Events[1].length >= PICOQUIC_RESET_PACKET_MIN_SIZE

(* C6: for a well-formed short-header packet, longer than the minimum      *)
(* reset size, whose non-null destination id matches no connection and     *)
(* which is not a stateless reset, one Stateless Reset is queued: a        *)
(* short-header first byte, at least 20 bytes of padding, the reset secret *)
(* derived from the destination id; it is not longer than the packet.      *)
C6_StatelessResetQueued ==
    (/\ ShortForUnknown
     /\ Events[1].ph.dest_cnx_id # NullCid
     /\ Events[1].length > PICOQUIC_RESET_PACKET_MIN_SIZE
     /\ ~TailIsSecret
     /\ ~dgram.oom)
        => /\ Len(obs.sp) = 1
           /\ obs.sp[1].type = "reset"
           /\ obs.sp[1].first_byte \in {48, 112}
           /\ obs.sp[1].pad_size >= 20
           /\ obs.sp[1].secret = ResetSecretOf(Events[1].ph.dest_cnx_id)
           /\ obs.sp[1].length <= Events[1].length

(* The segment k is a long-header packet of a nonzero version that is not  *)
(* in the table of supported versions, found for no connection.            *)
UnsupportedVersion(k) ==
    /\ dgram.segs[k].fixed
    /\ dgram.segs[k].long
    /\ dgram.segs[k].vn # 0
    /\ picoquic_get_version_index(dgram.segs[k].vn) < 0
    /\ Events[k].parse # "-1"
    /\ Events[k].cnx = NoCnx

ServerBoundInitial(k) ==
    /\ Events[k].ptype = "initial"
    /\ Events[k].parse # "-1"
    /\ \/ Events[k].cnx = NoCnx
       \/ ~InUse(Events[k].reg, Events[k].cnx)
       \/ ~Events[k].reg[Events[k].cnx].client_mode

NoneAdded(k) ==
    \A i \in Slots : InUse(RegAfter(k), i) => InUse(Events[k].reg, i)

(* C8, as stated: a server-bound Initial in a datagram shorter than the    *)
(* enforced initial MTU is rejected with InitialTooShort, no connection is *)
(* added and the frame decoder is not invoked.                             *)
C8_Original ==
    Done =>
        \A k \in 1..Len(Events) :
            (ServerBoundInitial(k)
             /\ SumLen(dgram.segs) < PICOQUIC_ENFORCED_INITIAL_MTU)
                => /\ Events[k].parse = "initial_too_short"
                   /\ NoneAdded(k)
                   /\ Events[k].ndec = 0

(* The result of picoquic_parse_header_and_decrypt for a server-bound      *)
(* Initial in a datagram that is too short.                                *)
TooShortResult(k) ==
    IF Events[k].cnx # NoCnx /\ Events[k].decoded_length = AeadFail
    THEN "aead_check"
    ELSE IF Events[k].cnx # NoCnx
            /\ InUse(Events[k].reg, Events[k].cnx)
            /\ Events[k].ph.pn64
                   \in Events[k].reg[Events[k].cnx].pkt_ctx[PC_INITIAL].received
    THEN "duplicate"
    ELSE "initial_too_short"

(* C8, amended: a server-bound Initial in a datagram shorter than the      *)
(* enforced initial MTU is rejected, no connection is added and the frame  *)
(* decoder is not invoked; the result is InitialTooShort unless a          *)
(* connection matched and the packet failed its authentication (AeadCheck) *)
(* or repeated a packet number (Duplicate).  The test is on the length of  *)
(* the datagram: no Initial of a datagram of at least the enforced MTU is  *)
(* rejected with InitialTooShort.                                          *)
C8_TooShortRejected ==
    Done =>
        \A k \in 1..Len(Events) :
            ServerBoundInitial(k)
                => IF SumLen(dgram.segs) < PICOQUIC_ENFORCED_INITIAL_MTU
                   THEN /\ Events[k].parse = TooShortResult(k)
                        /\ Events[k].ret = -1
                        /\ NoneAdded(k)
                        /\ Events[k].ndec = 0
                   ELSE Events[k].parse # "initial_too_short"

(* An Initial for no connection in a short datagram.                       *)
C8_Witness ==
    /\ Done
    /\ ServerBoundInitial(1)
    /\ SumLen(dgram.segs) < PICOQUIC_ENFORCED_INITIAL_MTU
    /\ Events[1].cnx = NoCnx
    /\ Events[1].parse = "initial_too_short"
    /\ \E i \in Slots : ~InUse(cnxs, i)

(* The connection the segment k is handled for: the one found for it, or,  *)
(* when it was created for the segment, a server connection that took its  *)
(* ids from the segment.  InitialHandled(k): the segment is an Initial     *)
(* that picoquic_incoming_initial is called for.                           *)
InitialHandled(k) ==
    /\ Events[k].ptype = "initial"
    /\ Events[k].parse = "ok"
    /\ Events[k].cnx # NoCnx
    /\ InUse(Events[k].reg, Events[k].cnx)
          => /\ ~Events[k].reg[Events[k].cnx].client_mode
             /\ get_incoming_path(Events[k].reg[Events[k].cnx], Events[k].ph)
             /\ Events[k].reg[Events[k].cnx].remote_cnxid
                    \in {NullCid, Events[k].ph.srce_cnx_id}

TokenMatches(k) ==
    /\ Events[k].ph.token_length = RETRY_TOKEN_SIZE
    /\ dgram.segs[k].tok = picoquic_get_retry_token(dgram.from)

C10_DisconnectedDiscards ==
    Done =>
        \A k \in 1..Len(Events) :
            (/\ Events[k].cnx # NoCnx
             /\ InUse(Events[k].reg, Events[k].cnx)
             /\ Events[k].reg[Events[k].cnx].cnx_state = "disconnected")
                => /\ Events[k].ndec = 0
                   /\ Events[k].ntls = 0
                   /\ RegAfter(k)[Events[k].cnx] = Events[k].reg[Events[k].cnx]

(***************************************************************************)
(* Properties of the packet number function, under PnSpec.                 *)
(***************************************************************************)
PnCalled == pncall.called /\ pncall.n \in PnLengths

PnTrue == pncall.highest + pncall.delta

PnExpected == pncall.highest + 1

(* C11 as stated: for every reference, every packet number length n and    *)
(* every delta in [-2^(8n-1), 2^(8n-1)) with reference + delta >= 0, the   *)
(* function called with the reference, the mask of n bytes and the low 8n  *)
(* bits of reference + delta returns reference + delta.                    *)
C11_Original ==
    (PnCalled /\ 0 - HalfWindow(pncall.n) <= pncall.delta
              /\ pncall.delta < HalfWindow(pncall.n))
        => pncall.pn64 = PnTrue

(* C11: the round trip holds for every delta strictly above -2^(8n-1) and  *)
(* strictly below 2^(8n-1): the function adds one to its first argument    *)
(* before it centres the window.                                           *)
C11_RoundTrip ==
    (PnCalled /\ 0 - HalfWindow(pncall.n) < pncall.delta
              /\ pncall.delta < HalfWindow(pncall.n))
        => pncall.pn64 = PnTrue

(* A packet number of the window before the reference's is recovered.      *)
C11_Witness ==
    /\ PnCalled
    /\ pncall.n = 2
    /\ pncall.delta = 1 - HalfWindow(pncall.n)
    /\ pncall.pn64 = PnTrue
    /\ pncall.pn64 \div PnWindow(pncall.n) < pncall.highest \div PnWindow(pncall.n)

PnCase(highest, pn) ==
    PnCalled /\ pncall.n = 1 /\ pncall.highest = highest /\ pncall.pn = pn

(* C12 as stated: one byte packet numbers; with reference 0x100, 0x7F      *)
(* gives 0x7F, 0x80 gives 0x80 and 0xFF gives 0xFF; with reference 0x180,  *)
(* 0x00 gives 0x200.                                                       *)
C12_Original ==
    /\ PnCase(256, 127) => pncall.pn64 = 127
    /\ PnCase(256, 128) => pncall.pn64 = 128
    /\ PnCase(256, 255) => pncall.pn64 = 255
    /\ PnCase(384, 0) => pncall.pn64 = 512

(* C12: one byte packet numbers; with reference 0x100, 0x7F gives 0x17F,   *)
(* 0x80 gives 0x180 and 0xFF gives 0xFF; with reference 0x180, 0x00 gives  *)
(* 0x200.                                                                  *)
C12_Boundaries ==
    /\ PnCase(256, 127) => pncall.pn64 = 383
    /\ PnCase(256, 128) => pncall.pn64 = 384
    /\ PnCase(256, 255) => pncall.pn64 = 255
    /\ PnCase(384, 0) => pncall.pn64 = 512

C12_Witness == PnCase(256, 127) /\ pncall.pn64 = 383

PnDistance(a, b) == IF a < b THEN b - a ELSE a - b

(* The values congruent to the result one and two windows away.            *)
PnOthers == {pncall.pn64 + k * PnWindow(pncall.n) : k \in {-2, -1, 1, 2}}

(* C13: the result is congruent to pn modulo 2^(8n); no other non-negative *)
(* value congruent to pn is strictly closer to the expected value          *)
(* highest + 1, and of two equally close values the result is the lower.   *)
C13_ClosestToExpected ==
    PnCalled =>
        /\ pncall.pn < PnWindow(pncall.n)
        /\ pncall.pn64 % PnWindow(pncall.n) = pncall.pn
        /\ \A v \in PnOthers :
              v >= 0 =>
                 \/ PnDistance(v, PnExpected) > PnDistance(pncall.pn64, PnExpected)
                 \/ /\ PnDistance(v, PnExpected) = PnDistance(pncall.pn64, PnExpected)
                    /\ pncall.pn64 < v

(* A tie: the result lies half a window below the expected value, and the  *)
(* value half a window above it is as close.                               *)
C13_Witness ==
    /\ PnCalled
    /\ pncall.pn64 + HalfWindow(pncall.n) = PnExpected
    /\ pncall.pn64 % PnWindow(pncall.n) = pncall.pn

(***************************************************************************)
(* Coalescing.  The registry after the call on the whole datagram is cnxs; *)
(* SplitRegistry is the registry after the call on the first segment as a  *)
(* datagram of its own followed by the call on the remaining segments,     *)
(* from the same registry obs.pre; r1 and r2 are the random draws of the   *)
(* two calls with the returns of the application's callback, and the two   *)
(* ways agree when some draws give the registry of the whole datagram.     *)
(***************************************************************************)
Coalesced == Done /\ Len(dgram.segs) >= 2

Draws == [rnd : {0, 1}, callback : CallbackReturns]

CallContext(rnd) == [q |-> quic, from |-> dgram.from, oom |-> dgram.oom, rnd |-> rnd.rnd, callback |-> rnd.callback, now |-> dgram.now]

FirstAlone(rnd) == picoquic_incoming_packet(obs.pre, CallContext(rnd), <<Head(dgram.segs)>>)

SplitRegistry(r1, r2) ==
    picoquic_incoming_packet(FirstAlone(r1).reg, CallContext(r2), Tail(dgram.segs)).reg

AllButLastHandled ==
    \A k \in 1..(Len(dgram.segs) - 1) :
        /\ k <= Len(Events)
        /\ Events[k].ret = 0
        /\ Events[k].consumed = dgram.segs[k].len

(* The datagram that carries segment k in the split.                       *)
SplitLength(k) == IF k = 1 THEN Head(dgram.segs).len ELSE SumLen(Tail(dgram.segs))

(* The size test of lines 467-474 sees the same answer in the split.       *)
SameSizeTest ==
    \A k \in 1..Len(Events) :
        ServerBoundInitial(k) =>
            ((SumLen(dgram.segs) < PICOQUIC_ENFORCED_INITIAL_MTU)
                 <=> (SplitLength(k) < PICOQUIC_ENFORCED_INITIAL_MTU))

RECURSIVE DecodedUpTo(_)
DecodedUpTo(k) == IF k = 0 THEN 0 ELSE Events[k].ndec + DecodedUpTo(k - 1)

HandedToDecoder(k) == Events[k].ndec > 0

DecodeCall(k) == obs.dec[DecodedUpTo(k)]

(* C15: for every segment handed to the frame decoder, the epoch passed is *)
(* the index of the crypto context that decrypted it (Initial 0, 0-RTT 1,  *)
(* Handshake 2, 1-RTT 3), the bytes passed start at ph.offset and are as   *)
(* many as were decrypted, and they end inside the segment.                *)
C15_DecoderArguments ==
    \A k \in 1..Len(Events) :
        HandedToDecoder(k) =>
            /\ Events[k].ndec = 1
            /\ Events[k].ptype \in Encrypted
            /\ DecodeCall(k).epoch = EpochOfType(Events[k].ptype)
            /\ DecodeCall(k).offset = Events[k].ph.offset
            /\ DecodeCall(k).length = Events[k].decoded_length
            /\ DecodeCall(k).offset + DecodeCall(k).length <= Events[k].consumed
            /\ Events[k].consumed <= Events[k].length

(* A Handshake packet and a 1-RTT packet of one datagram, both decoded.    *)
C15_Witness ==
    /\ Done
    /\ Len(Events) = 2
    /\ HandedToDecoder(1) /\ Events[1].ptype = "handshake" /\ DecodeCall(1).epoch = 2
    /\ HandedToDecoder(2) /\ Events[2].ptype = "phi0" /\ DecodeCall(2).epoch = 3
    /\ DecodeCall(2).length > 0

(***************************************************************************)
(* A connection created for an Initial and deleted again.  The decryption  *)
(* is attempted only for a connection (line 484) and the connection of the *)
(* segment is reset to none only when the created connection is deleted    *)
(* (lines 533-535), so the segments in question are the Initials that end  *)
(* with AeadCheck and without connection.                                  *)
(***************************************************************************)
CreatedThenFailed(k) ==
    /\ Events[k].ptype = "initial"
    /\ Events[k].parse = "aead_check"
    /\ Events[k].cnx = NoCnx

HpFailed(k) == Events[k].ph.offset = Events[k].ph.pn_offset

(* C16: when an Initial for which no connection exists makes the endpoint  *)
(* create one and the removal of the header protection or the AEAD check   *)
(* then fails, the connection is deleted before picoquic_incoming_packet   *)
(* returns: the segment is the last one processed, the registry at the     *)
(* return is the registry from before the segment, and new_context_created *)
(* is 0.                                                                   *)
C16_CreatedDeletedOnFailure ==
    \A k \in 1..Len(Events) :
        CreatedThenFailed(k) =>
            /\ picoquic_cnx_by_id(Events[k].reg, Events[k].ph.dest_cnx_id) = NoCnx
            /\ k = Len(Events)
            /\ cnxs = Events[k].reg
            /\ k = 1 => cnxs = obs.pre
            /\ ~obs.new_context_created

(* The Initial alone in its datagram fails the AEAD check.                 *)
C16_Witness ==
    /\ Done
    /\ Len(Events) = 1
    /\ CreatedThenFailed(1)
    /\ ~HpFailed(1)
    /\ Events[1].length >= PICOQUIC_ENFORCED_INITIAL_MTU
    /\ cnxs = obs.pre

(* The header protection of the Initial cannot be removed.                 *)
C16_WitnessHp ==
    /\ Done
    /\ \E k \in 1..Len(Events) : CreatedThenFailed(k) /\ HpFailed(k)

(* C17: when a handler ends a segment with the Memory error (the retry     *)
(* token cannot be computed, the token of a Retry cannot be copied),       *)
(* picoquic_incoming_packet returns a non-zero result to its caller.       *)
C17_MemoryPropagated ==
    (Done /\ \E k \in 1..Len(Events) : Events[k].code = "memory") => obs.ret # 0

(***************************************************************************)
(* The connections the registry gained while segment k was processed, and  *)
(* those it gained during the whole call.                                  *)
(***************************************************************************)
Gained(k) == {i \in Slots : InUse(RegAfter(k), i) /\ ~InUse(Events[k].reg, i)}

GainedInCall == {i \in Slots : InUse(cnxs, i) /\ ~InUse(obs.pre, i)}

(* C18: a connection that the registry gained during the call was created  *)
(* for a segment that is a well-formed Initial of a supported version for  *)
(* which the parser found no connection, in a datagram of at least         *)
(* PICOQUIC_ENFORCED_INITIAL_MTU bytes; no segment of another type adds    *)
(* one; and it is still registered only because that Initial was decrypted *)
(* and handled without error.                                              *)
C18_CreationOnlyByInitial ==
    Done =>
        /\ \A i \in GainedInCall : \E k \in 1..Len(Events) : i \in Gained(k)
        /\ \A k \in 1..Len(Events) :
              Gained(k) # {} =>
                 /\ Gained(k) = {Events[k].cnx}
                 /\ Events[k].ptype = "initial"
                 /\ Events[k].ph.version_index >= 0
                 /\ picoquic_cnx_by_id(Events[k].reg, Events[k].ph.dest_cnx_id) = NoCnx
                 /\ SumLen(dgram.segs) >= PICOQUIC_ENFORCED_INITIAL_MTU
                 /\ Events[k].parse = "ok"
                 /\ Events[k].code = "ok"
                 /\ Events[k].ret = 0

(* An Initial created a connection that the call left registered.          *)
C18_Witness ==
    /\ Done
    /\ Len(Events) >= 1
    /\ Gained(1) # {}
    /\ GainedInCall = Gained(1)
    /\ obs.new_context_created

(***************************************************************************)
(* Properties of the header parser, under ParseSpec.                       *)
(***************************************************************************)
PhCalled == phcall.called

(* C19: whenever picoquic_parse_packet_header returns 0, the header it     *)
(* produced satisfies offset <= offset + payload_length <= length, length  *)
(* being the number of bytes it was given.                                 *)
C19_HeaderWithinDatagram ==
    (PhCalled /\ phcall.ret = 0) =>
        /\ phcall.ph.offset <= phcall.ph.offset + phcall.ph.payload_length
        /\ phcall.ph.offset + phcall.ph.payload_length <= phcall.length

(* The fields of a long header and where each one ends.                    *)
LongHeaderGiven == phcall.seg.fixed /\ phcall.seg.long /\ phcall.length >= 7

DcidEnd == 6 + IdLen(phcall.seg.dcid)

ScidEnd == DcidEnd + 1 + IdLen(phcall.seg.scid)

InitialGiven ==
    /\ LongHeaderGiven
    /\ phcall.seg.vn # 0
    /\ picoquic_get_version_index(phcall.seg.vn) >= 0
    /\ phcall.seg.ltype = 0

TokenEnd ==
    IF InitialGiven
    THEN ScidEnd + picoquic_varint_length(phcall.seg.toklen) + phcall.seg.toklen
    ELSE ScidEnd

LengthGiven ==
    /\ LongHeaderGiven
    /\ phcall.seg.vn # 0
    /\ picoquic_get_version_index(phcall.seg.vn) >= 0
    /\ phcall.seg.ltype # 3

LengthEnd == TokenEnd + picoquic_varint_length(phcall.seg.plen)

(* A field that runs past the end of the datagram.                         *)
FieldOverrun ==
    \/ LongHeaderGiven /\ DcidEnd > phcall.length
    \/ LongHeaderGiven /\ ScidEnd > phcall.length
    \/ InitialGiven /\ TokenEnd > phcall.length
    \/ LengthGiven /\ LengthEnd > phcall.length

(* C20: when the destination id, the source id, the token of an Initial or *)
(* the varint of the payload length runs past the end of the datagram, the *)
(* parser reads no byte at an index >= length and produces ptype = Error   *)
(* with offset = length.                                                   *)
C20_OverrunReported ==
    (PhCalled /\ FieldOverrun) =>
        /\ ConnectionIdsEnd(phcall.seg, phcall.length) <= phcall.length
        /\ phcall.ph.ptype = "error"
        /\ phcall.ph.offset = phcall.length

(***************************************************************************)
(* A long header all of whose fields, and the payload it announces, lie    *)
(* within the bytes given to the parser.                                   *)
(***************************************************************************)
SupportedLongHeader ==
    /\ LongHeaderGiven
    /\ phcall.seg.vn # 0
    /\ picoquic_get_version_index(phcall.seg.vn) >= 0

WellFormedLong ==
    /\ SupportedLongHeader
    /\ IF phcall.seg.ltype = 3
       THEN ScidEnd < phcall.length
       ELSE LengthEnd + phcall.seg.plen <= phcall.length

TypeMapping(ltype) ==
    CASE ltype = 0 -> <<"initial", PC_INITIAL, 0>>
      [] ltype = 1 -> <<"0rtt", PC_APPLICATION, 1>>
      [] ltype = 2 -> <<"handshake", PC_HANDSHAKE, 2>>
      [] OTHER -> <<"retry", PC_INITIAL, 0>>

(* C21: a well-formed long header of a supported version gets ptype, pc    *)
(* and epoch from its long-type bits: 0 Initial/Initial/0, 1 0-RTT/        *)
(* Application/1, 2 Handshake/Handshake/2, 3 Retry/Initial/0; a long       *)
(* header of version 0 is a version negotiation packet of the Initial      *)
(* space; a first byte without the fixed bit gives Error with              *)
(* offset = length and payload_length = 0.                                 *)
C21_TypeMapping ==
    PhCalled =>
        /\ WellFormedLong =>
              /\ phcall.ret = 0
              /\ <<phcall.ph.ptype, phcall.ph.pc, phcall.ph.epoch>>
                     = TypeMapping(phcall.seg.ltype)
        /\ (LongHeaderGiven /\ phcall.seg.vn = 0 /\ DcidEnd + 1 <= phcall.length) =>
              /\ phcall.ret = 0
              /\ phcall.ph.ptype = "vn"
              /\ phcall.ph.pc = PC_INITIAL
        /\ (phcall.length > 0 /\ ~phcall.seg.fixed) =>
              /\ phcall.ret = 0
              /\ phcall.ph.ptype = "error"
              /\ phcall.ph.offset = phcall.length
              /\ phcall.ph.payload_length = 0

(* A Handshake header was parsed.                                          *)
C21_Witness ==
    /\ PhCalled /\ WellFormedLong
    /\ phcall.seg.ltype = 2
    /\ phcall.ph.ptype = "handshake" /\ phcall.ph.pc = PC_HANDSHAKE /\ phcall.ph.epoch = 2

ShortHeaderGiven == phcall.length > 0 /\ phcall.seg.fixed /\ ~phcall.seg.long

(* C22: a short header with the fixed bit set and at least 1 + local id    *)
(* length bytes is parsed as ptype = 1-RTT phase 0, pc = Application and   *)
(* epoch = 3, whether or not a connection is found for its destination id; *)
(* ptype is Error only when the packet cannot hold the destination id.     *)
C22_ShortHeaderType ==
    (PhCalled /\ ShortHeaderGiven) =>
        IF phcall.length >= 1 + quic.local_ctx_length
        THEN /\ phcall.ph.ptype = "phi0"
             /\ phcall.ph.pc = PC_APPLICATION
             /\ phcall.ph.epoch = 3
        ELSE phcall.ph.ptype = "error"

(***************************************************************************)
(* The Ready callback.  ReadyCalls(i) are the Ready callbacks of the call  *)
(* for connection i, and ReadySteps(i) the segments of the call at which   *)
(* handshake_done of connection i was set.                                 *)
(***************************************************************************)
ReadyCalls(i) == {j \in 1..Len(obs.cb) : obs.cb[j] = <<i, "ready">>}

Lives(k, i) == InUse(Events[k].reg, i) /\ InUse(RegAfter(k), i)

ReadySteps(i) == {k \in 1..Len(Events) : Lives(k, i) /\ ~Events[k].reg[i].handshake_done /\ RegAfter(k)[i].handshake_done}

ServerReadyThenCallback(c) == {HandshakeDone(picoquic_set_cnx_state(c, "server_ready"), [callback |-> r]) : r \in CallbackReturns}

C23_WitnessCallbackError ==
    /\ Done
    /\ \E i \in Slots : \E k \in ReadySteps(i) :
          ReadyCalls(i) # {} /\ RegAfter(k)[i].cnx_state # "server_ready"

(***************************************************************************)
(* 1-RTT packets.  OneRtt(k): segment k was parsed as a 1-RTT packet of    *)
(* connection Events[k].cnx and was decrypted, so that incoming_encrypted  *)
(* was called for it.                                                      *)
(***************************************************************************)
OneRtt(k) == Events[k].ptype \in {"phi0", "phi1"} /\ Events[k].cnx # NoCnx /\ Events[k].parse = "ok"

Early(k) == StateRank(Events[k].reg[Events[k].cnx].cnx_state) < StateRank("client_almost_ready")

EarlyStates == {"client_init", "client_init_sent", "client_init_resent", "client_handshake_start", "client_handshake_progress", "server_init", "server_handshake"}

PathUnchanged(k) ==
    /\ RegAfter(k)[Events[k].cnx].peer_addr = Events[k].reg[Events[k].cnx].peer_addr
    /\ RegAfter(k)[Events[k].cnx].challenge = Events[k].reg[Events[k].cnx].challenge
    /\ RegAfter(k)[Events[k].cnx].challenge_verified = Events[k].reg[Events[k].cnx].challenge_verified
    /\ RegAfter(k)[Events[k].cnx].received = Events[k].reg[Events[k].cnx].received
    /\ RegAfter(k)[Events[k].cnx].pkt_ctx = Events[k].reg[Events[k].cnx].pkt_ctx

(* C24: a 1-RTT packet is handed to the frame decoder only when the state  *)
(* of its connection is ClientAlmostReady or later and is not              *)
(* Disconnected; in each of the seven earlier states it is dropped as      *)
(* UnexpectedPacket, nothing is decoded, and the peer address, the path    *)
(* challenge and the receive counters of the connection are as before.     *)
C24_OneRttAdmission ==
    Done => \A k \in 1..Len(Events) :
        (OneRtt(k) /\ InUse(Events[k].reg, Events[k].cnx)) =>
            /\ HandedToDecoder(k) =>
                  /\ ~Early(k)
                  /\ Events[k].reg[Events[k].cnx].cnx_state \notin EarlyStates \cup {"disconnected"}
                  /\ DecodeCall(k).state = Events[k].reg[Events[k].cnx].cnx_state
            /\ Events[k].reg[Events[k].cnx].cnx_state \in EarlyStates =>
                  /\ Early(k)
                  /\ Events[k].code = "unexpected_packet"
                  /\ Events[k].ret = -1
                  /\ Events[k].ndec = 0
                  /\ InUse(RegAfter(k), Events[k].cnx)
                  /\ PathUnchanged(k)

(* A 1-RTT packet was decrypted for a server connection still in           *)
(* ServerHandshake and was dropped.                                        *)
C24_Witness ==
    /\ Done
    /\ \E k \in 1..Len(Events) :
          /\ OneRtt(k) /\ InUse(Events[k].reg, Events[k].cnx)
          /\ Events[k].reg[Events[k].cnx].cnx_state = "server_handshake"
          /\ Events[k].code = "unexpected_packet"

(* A 1-RTT packet from a new address was decoded in ClientAlmostReady.     *)
C24_WitnessDecoded ==
    /\ Done
    /\ \E k \in 1..Len(Events) :
          /\ OneRtt(k) /\ InUse(Events[k].reg, Events[k].cnx)
          /\ HandedToDecoder(k)
          /\ Events[k].reg[Events[k].cnx].cnx_state = "client_almost_ready"
          /\ RegAfter(k)[Events[k].cnx].peer_addr # Events[k].reg[Events[k].cnx].peer_addr

(***************************************************************************)
(* Retry.  RetryHandled(k): segment k was parsed as a Retry of connection  *)
(* Events[k].cnx, so that picoquic_incoming_retry was called for it;       *)
(* RetryEcho(k) is the condition of C25 on the state, the version and the  *)
(* original destination id of the body.                                    *)
(***************************************************************************)
RetryHandled(k) == Events[k].ptype = "retry" /\ Events[k].parse = "ok" /\ Events[k].cnx # NoCnx /\ InUse(Events[k].reg, Events[k].cnx)

RetryEcho(k) ==
    /\ Events[k].reg[Events[k].cnx].cnx_state \in {"client_init_sent", "client_init_resent"}
    /\ Events[k].ph.vn = picoquic_supported_versions[Events[k].reg[Events[k].cnx].version_index + 1]
    /\ IdLen(dgram.segs[k].odcid) = IdLen(Events[k].reg[Events[k].cnx].initial_cnxid)
    /\ dgram.segs[k].odcid = Events[k].reg[Events[k].cnx].initial_cnxid

C25_WitnessMismatch ==
    /\ Done /\ ~dgram.oom
    /\ \E k \in 1..Len(Events) :
          /\ RetryHandled(k) /\ ~RetryEcho(k)
          /\ Events[k].reg[Events[k].cnx].cnx_state = "client_init_sent"
          /\ Events[k].ph.vn = picoquic_supported_versions[Events[k].reg[Events[k].cnx].version_index + 1]
          /\ Events[k].code = "unexpected_packet"

(* A Retry of another version than the connection's was dropped.           *)
C25_WitnessVersion ==
    /\ Done /\ ~dgram.oom
    /\ \E k \in 1..Len(Events) :
          /\ RetryHandled(k)
          /\ Events[k].reg[Events[k].cnx].cnx_state = "client_init_sent"
          /\ Events[k].ph.vn # picoquic_supported_versions[Events[k].reg[Events[k].cnx].version_index + 1]
          /\ dgram.segs[k].odcid = Events[k].reg[Events[k].cnx].initial_cnxid

(***************************************************************************)
(* Version Negotiation.  VnSeen(k): segment k was parsed as a Version      *)
(* Negotiation packet; VnHandled(k): the parser found a connection for it. *)
(***************************************************************************)
VnSeen(k) == Events[k].ptype = "vn" /\ Events[k].parse = "ok"

VnHandled(k) == VnSeen(k) /\ Events[k].cnx # NoCnx /\ InUse(Events[k].reg, Events[k].cnx)

VnEcho(k) == Events[k].ph.dest_cnx_id = Events[k].reg[Events[k].cnx].local_cnxid

Reselected(k) ==
    /\ InUse(RegAfter(k), Events[k].cnx)
    /\ RegAfter(k)[Events[k].cnx] = picoquic_reset_cnx_version(Events[k].reg[Events[k].cnx], dgram.segs[k].versions).c
    /\ RegAfter(k)[Events[k].cnx].cnx_state \in {"client_init", "disconnected"}

NothingRecorded(k) ==
    \A i \in Slots : (InUse(Events[k].reg, i) /\ InUse(RegAfter(k), i)) =>
        \A pc \in {PC_INITIAL, PC_APPLICATION, PC_HANDSHAKE} :
            RegAfter(k)[i].pkt_ctx[pc].received \subseteq Events[k].reg[i].pkt_ctx[pc].received

(* C26: a Version Negotiation packet leads to the reselection of the       *)
(* version only when the connection is in ClientInitSent and the           *)
(* destination id of the packet is the local id of path 0; in every other  *)
(* state it is dropped with Detected and the connection is as before, and  *)
(* so is the connection when the echo check fails (the parser finds the    *)
(* connection of a Version Negotiation packet by that same id, so that on  *)
(* a connection of one path the check always passes).  No Version          *)
(* Negotiation packet adds a packet number to a receive set, and none      *)
(* creates or deletes a connection.                                        *)
C26_VersionNegotiation ==
    Done => \A k \in 1..Len(Events) :
        VnSeen(k) =>
            /\ NothingRecorded(k)
            /\ \A i \in Slots : InUse(RegAfter(k), i) = InUse(Events[k].reg, i)
            /\ \A i \in Slots : i # Events[k].cnx => RegAfter(k)[i] = Events[k].reg[i]
            /\ VnHandled(k) =>
                  IF Events[k].reg[Events[k].cnx].cnx_state # "client_init_sent"
                  THEN /\ Events[k].code = "detected"
                       /\ RegAfter(k)[Events[k].cnx] = Events[k].reg[Events[k].cnx]
                  ELSE IF VnEcho(k)
                  THEN Reselected(k)
                  ELSE RegAfter(k)[Events[k].cnx] = Events[k].reg[Events[k].cnx]

(* A connection in ClientInitSent selected another version.                *)
C26_Witness ==
    /\ Done
    /\ \E k \in 1..Len(Events) :
          /\ VnHandled(k) /\ VnEcho(k)
          /\ Events[k].reg[Events[k].cnx].cnx_state = "client_init_sent"
          /\ RegAfter(k)[Events[k].cnx].cnx_state = "client_init"
          /\ RegAfter(k)[Events[k].cnx].version_index # Events[k].reg[Events[k].cnx].version_index

(* A Version Negotiation packet for a connection past ClientInitSent was   *)
(* dropped.                                                                *)
C26_WitnessDropped ==
    /\ Done
    /\ \E k \in 1..Len(Events) :
          /\ VnHandled(k)
          /\ Events[k].reg[Events[k].cnx].cnx_state = "client_handshake_start"
          /\ Events[k].code = "detected"

(***************************************************************************)
(* The connection the parser returns.  ById are the connections whose      *)
(* local id is the destination id of the packet, ByNet those registered    *)
(* for the address the packet came from.                                   *)
(***************************************************************************)
ById(cid) == {i \in Slots : InUse(cnxs, i) /\ cid # NullCid /\ cnxs[i].local_cnxid = cid}

ByNet == {i \in Slots : InUse(cnxs, i) /\ cnxs[i].reg_addr = PeerAddr}

InitialOrZeroRtt == phcall.seg.ltype \in {0, 1}

C27_WitnessHandshake ==
    /\ PhCalled /\ WellFormedLong /\ ById(phcall.seg.dcid) = {}
    /\ phcall.seg.ltype = 2
    /\ ByNet # {}
    /\ phcall.cnx = NoCnx

(* A short header for an unknown id from the address of a connection, on   *)
(* an endpoint with local ids.                                             *)
C27_WitnessShort ==
    /\ PhCalled /\ ShortHeaderGiven /\ phcall.length >= 1 + quic.local_ctx_length
    /\ quic.local_ctx_length > 0
    /\ ByNet # {}
    /\ phcall.cnx = NoCnx

(* A short header on an endpoint without local ids.                        *)
C27_WitnessShortByNet ==
    /\ PhCalled /\ ShortHeaderGiven
    /\ quic.local_ctx_length = 0
    /\ phcall.cnx \in ByNet

(***************************************************************************)
(* The closing states.  StateBefore(k) and StateAfter(k) are the states of *)
(* the connection of segment k before and after the segment.               *)
(***************************************************************************)
StateBefore(k) == Events[k].reg[Events[k].cnx].cnx_state

StateAfter(k) == RegAfter(k)[Events[k].cnx].cnx_state

ClosingFramesDecoded(k) == picoquic_decode_closing_frames(dgram.segs[k]).ret = "ok"

C28_WitnessServer ==
    /\ Done
    /\ \E k \in 1..Len(Events) :
          /\ OneRtt(k) /\ InUse(Events[k].reg, Events[k].cnx)
          /\ StateBefore(k) = "closing"
          /\ ~Events[k].reg[Events[k].cnx].client_mode
          /\ StateAfter(k) = "draining"

(* A packet without CONNECTION_CLOSE was received in Closing.              *)
C28_WitnessAck ==
    /\ Done
    /\ \E k \in 1..Len(Events) :
          /\ OneRtt(k) /\ InUse(Events[k].reg, Events[k].cnx)
          /\ StateBefore(k) = "closing"
          /\ ~Events[k].reg[Events[k].cnx].pkt_ctx[Events[k].ph.pc].ack_needed
          /\ StateAfter(k) = "closing"
          /\ RegAfter(k)[Events[k].cnx].pkt_ctx[Events[k].ph.pc].ack_needed

(* A packet was dropped in Draining.                                       *)
C28_WitnessDraining ==
    /\ Done
    /\ \E k \in 1..Len(Events) :
          /\ OneRtt(k) /\ InUse(Events[k].reg, Events[k].cnx)
          /\ StateBefore(k) = "draining"
          /\ Events[k].code = "unexpected_packet"

(***************************************************************************)
(* The first states of a client.  Cleartext(k): segment k is an Initial or *)
(* a Handshake packet that was authenticated for connection Events[k].cnx; *)
(* ThroughHandshakeStart(k): the segment set the state to                  *)
(* ClientHandshakeStart, which is the state in which its frames were       *)
(* decoded, or the state it left when they were not.                       *)
(***************************************************************************)
InitSent == {"client_init_sent", "client_init_resent"}

Cleartext(k) == Events[k].ptype \in {"initial", "handshake"} /\ Events[k].parse = "ok" /\ Events[k].cnx # NoCnx

ThroughHandshakeStart(k) ==
    IF HandedToDecoder(k) THEN DecodeCall(k).state = "client_handshake_start"
    ELSE StateAfter(k) = "client_handshake_start"

LeftInitSent(k) ==
    /\ Events[k].cnx # NoCnx
    /\ InUse(Events[k].reg, Events[k].cnx)
    /\ StateBefore(k) \in InitSent
    /\ (InUse(RegAfter(k), Events[k].cnx) => StateAfter(k) # StateBefore(k))

(* C29: a client connection in ClientInitSent or ClientInitResent that     *)
(* processes an authenticated Initial or Handshake packet of the server    *)
(* moves to ClientHandshakeStart; and a segment that takes a connection    *)
(* out of one of the two states is such a packet, or a Retry (to           *)
(* ClientInitResent), or a Version Negotiation packet (to ClientInit or    *)
(* Disconnected), or a stateless reset (to Disconnected).  A connection    *)
(* in these states is not deleted, and a segment changes the state of no   *)
(* other connection than its own.                                          *)
C29_HandshakeStart ==
    Done => \A k \in 1..Len(Events) :
        /\ \A i \in Slots :
              (InUse(Events[k].reg, i) /\ Events[k].reg[i].cnx_state \in InitSent) =>
                  /\ InUse(RegAfter(k), i)
                  /\ i # Events[k].cnx => RegAfter(k)[i] = Events[k].reg[i]
        /\ (/\ Cleartext(k) /\ InUse(Events[k].reg, Events[k].cnx)
            /\ Events[k].reg[Events[k].cnx].client_mode
            /\ StateBefore(k) \in InitSent) =>
                  /\ Events[k].code \notin {"detected", "unexpected_packet"}
                  /\ StateAfter(k) \notin InitSent
                  /\ ThroughHandshakeStart(k)
        /\ LeftInitSent(k) =>
              \/ Cleartext(k) /\ ThroughHandshakeStart(k)
              \/ Events[k].ptype = "retry" /\ Events[k].code = "retry"
                    /\ StateAfter(k) = "client_init_resent"
              \/ Events[k].ptype = "vn" /\ StateBefore(k) = "client_init_sent"
                    /\ StateAfter(k) \in {"client_init", "disconnected"}
              \/ Events[k].parse = "stateless_reset" /\ StateAfter(k) = "disconnected"

(* The first Initial of the server was processed in ClientInitSent.        *)
C29_Witness ==
    /\ Done
    /\ \E k \in 1..Len(Events) :
          /\ Cleartext(k) /\ InUse(Events[k].reg, Events[k].cnx)
          /\ Events[k].ptype = "initial"
          /\ StateBefore(k) = "client_init_sent"
          /\ StateAfter(k) = "client_handshake_start"

(* A Handshake packet was processed in ClientInitResent.                   *)
C29_WitnessHandshake ==
    /\ Done
    /\ \E k \in 1..Len(Events) :
          /\ Cleartext(k) /\ InUse(Events[k].reg, Events[k].cnx)
          /\ Events[k].ptype = "handshake"
          /\ StateBefore(k) = "client_init_resent"
          /\ StateAfter(k) \notin InitSent

(* C30: Disconnected is terminal on the reception path: a connection that  *)
(* is Disconnected before a segment is still registered and still          *)
(* Disconnected after it, whatever the segment, and so from the start of   *)
(* a call of picoquic_incoming_packet to its end, and from call to call.   *)
C30_DisconnectedTerminal ==
    Done =>
        /\ \A k \in 1..Len(Events) : \A i \in Slots :
              (InUse(Events[k].reg, i) /\ Events[k].reg[i].cnx_state = "disconnected") =>
                  /\ InUse(RegAfter(k), i)
                  /\ RegAfter(k)[i].cnx_state = "disconnected"
        /\ \A i \in Slots :
              (InUse(obs.pre, i) /\ obs.pre[i].cnx_state = "disconnected") =>
                  /\ InUse(cnxs, i)
                  /\ cnxs[i].cnx_state = "disconnected"

(* The frames of an authenticated Initial were decoded for a Disconnected  *)
(* client, which stayed Disconnected.                                      *)
C30_Witness ==
    /\ Done
    /\ \E k \in 1..Len(Events) :
          /\ Cleartext(k) /\ InUse(Events[k].reg, Events[k].cnx)
          /\ StateBefore(k) = "disconnected"
          /\ Events[k].reg[Events[k].cnx].client_mode
          /\ HandedToDecoder(k)
          /\ StateAfter(k) = "disconnected"

(* A connection became Disconnected in one call and received a packet in   *)
(* the next.                                                               *)
C30_WitnessLater ==
    /\ Done
    /\ Len(obs.prev) >= 1
    /\ \E i \in Slots :
          /\ InUse(obs.prev[1].reg, i) /\ obs.prev[1].reg[i].cnx_state # "disconnected"
          /\ InUse(obs.pre, i) /\ obs.pre[i].cnx_state = "disconnected"
          /\ \E k \in 1..Len(Events) : Events[k].cnx = i /\ Events[k].parse = "ok"

(***************************************************************************)
(* The remote connection id.  LongCleartext(k): segment k was parsed as an *)
(* Initial or a Handshake packet of connection Events[k].cnx, which was    *)
(* registered before the segment.                                          *)
(***************************************************************************)
LongCleartext(k) == Events[k].ptype \in {"initial", "handshake"} /\ Events[k].cnx # NoCnx /\ InUse(Events[k].reg, Events[k].cnx)

RemoteBefore(k) == Events[k].reg[Events[k].cnx].remote_cnxid

(* C31: the remote id of a connection is latched from the source id of the *)
(* first Initial or Handshake packet whose frames are decoded (and a       *)
(* connection created for an Initial has the source id of that Initial);   *)
(* once it is not null no Initial or Handshake packet changes it, and such *)
(* a packet with another source id has no frames decoded, does not reach   *)
(* the TLS engine and is dropped.                                          *)
C31_RemoteCidLatched ==
    Done => \A k \in 1..Len(Events) :
        /\ \A i \in Gained(k) : RegAfter(k)[i].remote_cnxid = Events[k].ph.srce_cnx_id
        /\ LongCleartext(k) =>
              /\ (RemoteBefore(k) = NullCid /\ HandedToDecoder(k)) =>
                    /\ InUse(RegAfter(k), Events[k].cnx)
                    /\ RegAfter(k)[Events[k].cnx].remote_cnxid = Events[k].ph.srce_cnx_id
              /\ RemoteBefore(k) # NullCid =>
                    /\ InUse(RegAfter(k), Events[k].cnx)
                    /\ RegAfter(k)[Events[k].cnx].remote_cnxid = RemoteBefore(k)
                    /\ Events[k].ph.srce_cnx_id # RemoteBefore(k) =>
                          /\ Events[k].ndec = 0
                          /\ Events[k].ntls = 0
                          /\ Events[k].ret = -1
                          /\ Events[k].parse = "ok" =>
                                Events[k].code \in {"unexpected_packet", "cnxid_check", "detected"}

(* A client without remote id latched the source id of the server's        *)
(* Initial.                                                                *)
C31_Witness ==
    /\ Done
    /\ \E k \in 1..Len(Events) :
          /\ LongCleartext(k) /\ Events[k].ptype = "initial"
          /\ RemoteBefore(k) = NullCid
          /\ HandedToDecoder(k)
          /\ RegAfter(k)[Events[k].cnx].remote_cnxid = PeerCid

(* An authenticated Handshake packet with another source id was dropped.   *)
C31_WitnessHandshake ==
    /\ Done
    /\ \E k \in 1..Len(Events) :
          /\ LongCleartext(k) /\ Events[k].ptype = "handshake" /\ Events[k].parse = "ok"
          /\ RemoteBefore(k) = PeerCid
          /\ Events[k].ph.srce_cnx_id = OtherCid
          /\ Events[k].reg[Events[k].cnx].client_mode
          /\ Events[k].code = "cnxid_check"

(* An authenticated Initial with another source id was dropped.            *)
C31_WitnessInitial ==
    /\ Done
    /\ \E k \in 1..Len(Events) :
          /\ LongCleartext(k) /\ Events[k].ptype = "initial" /\ Events[k].parse = "ok"
          /\ RemoteBefore(k) = PeerCid
          /\ Events[k].ph.srce_cnx_id = OtherCid
          /\ Events[k].code = "unexpected_packet"

(***************************************************************************)
(* The path of an accepted 1-RTT packet.  Accepted(k): segment k is a      *)
(* 1-RTT packet decrypted for a connection on which its path was found and *)
(* whose state is ClientAlmostReady or later and before ClosingReceived.   *)
(***************************************************************************)
Accepted(k) ==
    /\ OneRtt(k) /\ InUse(Events[k].reg, Events[k].cnx)
    /\ get_incoming_path(Events[k].reg[Events[k].cnx], Events[k].ph)
    /\ StateRank(StateBefore(k)) >= StateRank("client_almost_ready")
    /\ StateRank(StateBefore(k)) < StateRank("closing_received")

PathBefore(k) == Events[k].reg[Events[k].cnx]

PathAfter(k) == RegAfter(k)[Events[k].cnx]

NewAddress(k) == dgram.from # PathBefore(k).peer_addr /\ dgram.from # NullAddr

Challenges == {1, 2}

ChallengeKept(k) ==
    /\ PathAfter(k).peer_addr = PathBefore(k).peer_addr
    /\ PathAfter(k).challenge = PathBefore(k).challenge
    /\ PathAfter(k).challenge_verified = PathBefore(k).challenge_verified
    /\ PathAfter(k).challenge_time = PathBefore(k).challenge_time

ChallengeArmed(k, delay) ==
    /\ PathAfter(k).peer_addr = dgram.from
    /\ PathAfter(k).challenge \in Challenges
    /\ ~PathAfter(k).challenge_verified
    /\ PathAfter(k).challenge_time = dgram.now + delay

(* C32 as stated: an accepted 1-RTT packet from an address that is not the *)
(* recorded peer address and not 0.0.0.0 sets the peer address, draws a    *)
(* challenge, clears challenge_verified and sets challenge_time to now     *)
(* plus the round trip time of the path; otherwise the four are as before. *)
C32_Original ==
    Done => \A k \in 1..Len(Events) :
        (Accepted(k) /\ InUse(RegAfter(k), Events[k].cnx)) =>
            IF NewAddress(k) THEN ChallengeArmed(k, PathBefore(k).smoothed_rtt)
            ELSE ChallengeKept(k)

(* C32: an accepted 1-RTT packet from an address that is not the recorded  *)
(* peer address and not 0.0.0.0 sets the peer address to it, draws a       *)
(* challenge, clears challenge_verified and sets challenge_time to now     *)
(* plus the retransmit timer of the path; when the address is the recorded *)
(* one or 0.0.0.0 the four fields are as before.                           *)
C32_PathChallenge ==
    Done => \A k \in 1..Len(Events) :
        Accepted(k) =>
            /\ InUse(RegAfter(k), Events[k].cnx)
            /\ IF NewAddress(k) THEN ChallengeArmed(k, PathBefore(k).retransmit_timer)
               ELSE ChallengeKept(k)

(* A ready server took a 1-RTT packet from a new address.                  *)
C32_Witness ==
    /\ Done
    /\ \E k \in 1..Len(Events) :
          /\ Accepted(k) /\ NewAddress(k)
          /\ StateBefore(k) = "server_ready"
          /\ PathAfter(k).peer_addr = OtherAddr
          /\ PathAfter(k).challenge_time = dgram.now + InitialRetransmitTimer

(* An accepted 1-RTT packet came from 0.0.0.0 and the path was kept.       *)
C32_WitnessNullAddress ==
    /\ Done
    /\ \E k \in 1..Len(Events) :
          /\ Accepted(k) /\ dgram.from = NullAddr
          /\ PathAfter(k).peer_addr = PeerAddr

(* An accepted 1-RTT packet came from the recorded peer address.           *)
C32_WitnessSameAddress ==
    /\ Done
    /\ \E k \in 1..Len(Events) :
          /\ Accepted(k) /\ dgram.from = PathBefore(k).peer_addr
          /\ HandedToDecoder(k)

(***************************************************************************)
(* The implicit acknowledgment of the Initial packets.  Cleartext(k) is a  *)
(* segment of type Initial or Handshake; it is processed successfully when *)
(* its handler returns 0.                                                  *)
(***************************************************************************)
ProcessedCleartext(k) ==
    /\ Events[k].ptype \in {"initial", "handshake"}
    /\ Events[k].parse = "ok" /\ Events[k].code = "ok" /\ Events[k].ret = 0
    /\ Events[k].cnx # NoCnx /\ InUse(RegAfter(k), Events[k].cnx)

HandshakeKeys(c) == 2 \in c.keys /\ c.hs_encrypt

Unrestricted == {"client_init_sent", "client_init_resent", "client_handshake_start", "client_handshake_progress"}

(* C33 as stated: on the client and on the server, after an Initial or a   *)
(* Handshake packet is processed successfully, when both Handshake keys    *)
(* are installed no Initial packet is outstanding.                         *)
C33_Original ==
    Done => \A k \in 1..Len(Events) :
        (ProcessedCleartext(k) /\ HandshakeKeys(PathAfter(k)))
            => ~PathAfter(k).pkt_ctx[PC_INITIAL].outstanding

(* C33: on a client in ClientInitSent, ClientInitResent,                   *)
(* ClientHandshakeStart or ClientHandshakeProgress, after an Initial or a  *)
(* Handshake packet is processed successfully, when both Handshake keys    *)
(* are installed no Initial packet is outstanding; on a server, no Initial *)
(* and no Handshake packet is outstanding after the Initial or Handshake   *)
(* packet with which handshake_done is set.                                *)
C33_ImplicitAck ==
    Done => \A k \in 1..Len(Events) :
        (ProcessedCleartext(k) /\ InUse(Events[k].reg, Events[k].cnx)) =>
            /\ (/\ PathBefore(k).client_mode
                /\ StateBefore(k) \in Unrestricted
                /\ HandshakeKeys(PathAfter(k)))
                  => ~PathAfter(k).pkt_ctx[PC_INITIAL].outstanding
            /\ (/\ ~PathBefore(k).client_mode
                /\ ~PathBefore(k).handshake_done
                /\ PathAfter(k).handshake_done)
                  => /\ ~PathAfter(k).pkt_ctx[PC_INITIAL].outstanding
                     /\ ~PathAfter(k).pkt_ctx[PC_HANDSHAKE].outstanding

(* A client whose Initial was outstanding took a packet of the server with *)
(* both Handshake keys installed afterwards.                               *)
C33_Witness ==
    /\ Done
    /\ \E k \in 1..Len(Events) :
          /\ ProcessedCleartext(k) /\ InUse(Events[k].reg, Events[k].cnx)
          /\ PathBefore(k).client_mode
          /\ PathBefore(k).pkt_ctx[PC_INITIAL].outstanding
          /\ HandshakeKeys(PathAfter(k))
          /\ ~PathAfter(k).pkt_ctx[PC_INITIAL].outstanding

(* The first Initial of the server installed the Handshake keys.           *)
C33_WitnessInitial ==
    /\ Done
    /\ \E k \in 1..Len(Events) :
          /\ ProcessedCleartext(k) /\ InUse(Events[k].reg, Events[k].cnx)
          /\ Events[k].ptype = "initial"
          /\ StateBefore(k) = "client_init_sent"
          /\ ~HandshakeKeys(PathBefore(k))
          /\ PathBefore(k).pkt_ctx[PC_INITIAL].outstanding
          /\ HandshakeKeys(PathAfter(k))

(* A server completed its handshake with Initial packets outstanding.      *)
C33_WitnessServer ==
    /\ Done
    /\ \E k \in 1..Len(Events) :
          /\ ProcessedCleartext(k) /\ InUse(Events[k].reg, Events[k].cnx)
          /\ ~PathBefore(k).client_mode
          /\ PathBefore(k).pkt_ctx[PC_INITIAL].outstanding
          /\ ~PathBefore(k).handshake_done /\ PathAfter(k).handshake_done

(***************************************************************************)
(* 0-RTT packets.  ZeroRtt(k): segment k is a 0-RTT packet decrypted for a *)
(* connection, which picoquic_incoming_segment hands to                    *)
(* picoquic_incoming_0rtt.                                                 *)
(***************************************************************************)
ZeroRtt(k) ==
    /\ Events[k].ptype = "0rtt" /\ Events[k].parse = "ok"
    /\ Events[k].cnx # NoCnx /\ InUse(Events[k].reg, Events[k].cnx)

ZeroRttCids(k) ==
    /\ Events[k].ph.dest_cnx_id \in {PathBefore(k).initial_cnxid, PathBefore(k).local_cnxid}
    /\ Events[k].ph.srce_cnx_id = PathBefore(k).remote_cnxid

ZeroRttStates == {"server_almost_ready", "server_ready"}

ZeroRttVersion(k) ==
    Events[k].ph.vn = picoquic_supported_versions[PathBefore(k).version_index + 1]

(* C34: the frames of a 0-RTT packet are decoded only on a connection in   *)
(* ServerAlmostReady or ServerReady whose initial id or local id is the    *)
(* destination id of the packet, whose remote id is its source id and      *)
(* whose version is its version.  A connection id that differs gives       *)
(* CnxIdCheck; otherwise any other state, the client states included,      *)
(* gives UnexpectedPacket; otherwise a version that differs raises a       *)
(* connection error, after which the connection is closing.  In these      *)
(* three cases no frame is decoded and the TLS engine is not run.          *)
C34_ZeroRtt ==
    Done => \A k \in 1..Len(Events) :
        /\ (Events[k].ptype = "0rtt" /\ HandedToDecoder(k)) =>
              /\ ZeroRtt(k) /\ ZeroRttCids(k) /\ ZeroRttVersion(k)
              /\ StateBefore(k) \in ZeroRttStates
              /\ ~PathBefore(k).client_mode
              /\ DecodeCall(k).epoch = 1
        /\ ZeroRtt(k) =>
              /\ ~ZeroRttCids(k) =>
                    Events[k].code = "cnxid_check" /\ Events[k].ndec = 0 /\ Events[k].ntls = 0
              /\ (ZeroRttCids(k) /\ StateBefore(k) \notin ZeroRttStates) =>
                    Events[k].code = "unexpected_packet" /\ Events[k].ndec = 0
                    /\ Events[k].ntls = 0
              /\ (ZeroRttCids(k) /\ StateBefore(k) \in ZeroRttStates /\ ~ZeroRttVersion(k)) =>
                    /\ Events[k].code = "detected" /\ Events[k].ndec = 0 /\ Events[k].ntls = 0
                    /\ InUse(RegAfter(k), Events[k].cnx)
                    /\ StateAfter(k) = "closing"
              /\ (ZeroRttCids(k) /\ StateBefore(k) \in ZeroRttStates /\ ZeroRttVersion(k)) =>
                    HandedToDecoder(k)

(* A 0-RTT packet was decoded on a server in ServerAlmostReady.            *)
C34_Witness ==
    /\ Done
    /\ \E k \in 1..Len(Events) :
          /\ ZeroRtt(k) /\ HandedToDecoder(k)
          /\ StateBefore(k) = "server_almost_ready"

(* A 0-RTT packet with another source id was dropped with CnxIdCheck.      *)
C34_WitnessCid ==
    /\ Done
    /\ \E k \in 1..Len(Events) :
          /\ ZeroRtt(k) /\ ~ZeroRttCids(k)
          /\ Events[k].code = "cnxid_check"

(* A 0-RTT packet was dropped by a client.                                 *)
C34_WitnessClient ==
    /\ Done
    /\ \E k \in 1..Len(Events) :
          /\ ZeroRtt(k) /\ ZeroRttCids(k)
          /\ PathBefore(k).client_mode
          /\ Events[k].code = "unexpected_packet"

(* A 0-RTT packet was dropped by a server in ServerHandshake.              *)
C34_WitnessServerEarly ==
    /\ Done
    /\ \E k \in 1..Len(Events) :
          /\ ZeroRtt(k) /\ ZeroRttCids(k)
          /\ StateBefore(k) = "server_handshake"
          /\ Events[k].code = "unexpected_packet"

(* A 0-RTT packet of another version closed a ready server.                *)
C34_WitnessVersion ==
    /\ Done
    /\ \E k \in 1..Len(Events) :
          /\ ZeroRtt(k) /\ ZeroRttCids(k) /\ ~ZeroRttVersion(k)
          /\ StateBefore(k) = "server_ready"
          /\ StateAfter(k) = "closing"

(***************************************************************************)
(* The loop of picoquic_incoming_packet.  Events holds the segments in the *)
(* order in which they were handed to picoquic_incoming_segment;           *)
(* ConsumedIndex(k) is consumed_index when segment k is handed over, the   *)
(* datagram length less the remaining length the segment was given.        *)
(***************************************************************************)
DatagramLength == SumLen(dgram.segs)

ConsumedIndex(k) == DatagramLength - Events[k].length

(* C35: picoquic_incoming_packet returns for every datagram.  A segment    *)
(* for which picoquic_incoming_segment returns 0 consumed at least one     *)
(* byte; every segment but the last visited returned 0, and the next one   *)
(* starts `consumed` bytes further, at a strictly greater index below the  *)
(* datagram length; the last one failed or reached the end of the          *)
(* datagram; and no more segments are visited than the datagram has bytes. *)
C35_LoopAdvances ==
    Done =>
        /\ obs.ret = 0
        /\ Len(Events) <= DatagramLength
        /\ \A k \in 1..Len(Events) :
              /\ ConsumedIndex(k) >= 0 /\ ConsumedIndex(k) < DatagramLength
              /\ k = 1 => ConsumedIndex(k) = 0
              /\ Events[k].ret = 0 => Events[k].consumed >= 1
              /\ k < Len(Events) =>
                    /\ Events[k].ret = 0
                    /\ ConsumedIndex(k + 1) = ConsumedIndex(k) + Events[k].consumed
                    /\ ConsumedIndex(k) < ConsumedIndex(k + 1)
              /\ k = Len(Events) =>
                    \/ Events[k].ret # 0
                    \/ ConsumedIndex(k) + Events[k].consumed >= DatagramLength

(* Two coalesced segments were visited one after the other and the second  *)
(* reached the end of the datagram.                                        *)
C35_Witness ==
    /\ Done
    /\ Len(Events) = 2
    /\ Events[1].ret = 0 /\ Events[1].consumed >= 1
    /\ Events[2].ret = 0
    /\ ConsumedIndex(2) + Events[2].consumed = DatagramLength

(* The loop stopped at a first segment that failed with bytes remaining.   *)
C35_WitnessStopped ==
    /\ Done
    /\ Len(dgram.segs) = 2 /\ Len(Events) = 1
    /\ Events[1].ret = -1

(* A packet of an unsupported version returned 0 without a connection and  *)
(* consumed the rest of the datagram.                                      *)
C35_WitnessNoConnection ==
    /\ Done
    /\ \E k \in 1..Len(Events) :
          /\ Events[k].cnx = NoCnx /\ Events[k].ret = 0
          /\ Events[k].consumed >= 1

(***************************************************************************)
(* Packets that fail the AEAD check.  AeadFailed(k): segment k is of an    *)
(* encrypted type, a connection was found for it, and                      *)
(* picoquic_aead_decrypt_generic returned its error value.                 *)
(***************************************************************************)
AeadFailed(k) ==
    /\ Events[k].ptype \in Encrypted
    /\ Events[k].cnx # NoCnx /\ InUse(Events[k].reg, Events[k].cnx)
    /\ Events[k].decoded_length = AeadFail

(* C36: a packet that fails the AEAD check is dropped as AeadCheck, also   *)
(* when its packet number is in the receive set already; no handler runs,  *)
(* and the packet contexts of its connection (receive set, largest number  *)
(* received, ack_needed) are as before.                                    *)
C36_AeadFailureNoAck ==
    Done => \A k \in 1..Len(Events) :
        AeadFailed(k) =>
            /\ Events[k].parse = "aead_check"
            /\ Events[k].code = "aead_check"
            /\ Events[k].ret = -1
            /\ Events[k].ndec = 0 /\ Events[k].ntls = 0
            /\ InUse(RegAfter(k), Events[k].cnx)
            /\ PathAfter(k).pkt_ctx = PathBefore(k).pkt_ctx

(* A packet that failed the AEAD check carried a packet number that was in *)
(* the receive set.                                                        *)
C36_Witness ==
    /\ Done
    /\ \E k \in 1..Len(Events) :
          /\ AeadFailed(k)
          /\ Events[k].already_received
          /\ Events[k].ph.pn64 \in PathBefore(k).pkt_ctx[Events[k].ph.pc].received
          /\ Events[k].parse = "aead_check"

(* A packet that failed the AEAD check carried a new packet number.        *)
C36_WitnessNew ==
    /\ Done
    /\ \E k \in 1..Len(Events) :
          /\ AeadFailed(k)
          /\ ~Events[k].already_received
          /\ Events[k].parse = "aead_check"

(***************************************************************************)
(* The stateless packets of one call.  obs.sp holds the packets that the   *)
(* call queued, Events[k].sp those queued for segment k.                   *)
(***************************************************************************)
RECURSIVE QueuedUpTo(_)
QueuedUpTo(k) == IF k = 0 THEN 0 ELSE Len(Events[k].sp) + QueuedUpTo(k - 1)

(* C37: one call of picoquic_incoming_packet queues at most one stateless  *)
(* packet, whatever the number of coalesced segments: the segments         *)
(* together queued what the call queued, and a segment that follows one    *)
(* for which a stateless packet was queued is never visited.               *)
C37_OneStatelessPacket ==
    Done =>
        /\ Len(obs.sp) <= 1
        /\ QueuedUpTo(Len(Events)) = Len(obs.sp)
        /\ \A k \in 1..Len(Events) : Events[k].sp # <<>> => k = Len(Events)

(* The second of two coalesced segments had a stateless packet queued.     *)
C37_Witness ==
    /\ Done
    /\ Len(dgram.segs) = 2 /\ Len(Events) = 2
    /\ Events[1].sp = <<>> /\ Len(Events[2].sp) = 1
    /\ Len(obs.sp) = 1

(* A packet of an unsupported version at the head of a datagram of two     *)
(* segments was answered and took the rest of the datagram.                *)
C37_WitnessVersion ==
    /\ Done
    /\ Len(dgram.segs) = 2 /\ Len(Events) = 1
    /\ Events[1].ret = 0 /\ Len(Events[1].sp) = 1
    /\ Events[1].sp[1].type = "vn"

(* An Initial at the head of a datagram of two segments was answered with  *)
(* a Retry and ended the call.                                             *)
C37_WitnessRetry ==
    /\ Done
    /\ Len(dgram.segs) = 2 /\ Len(Events) = 1
    /\ Events[1].code = "retry" /\ Len(Events[1].sp) = 1

(***************************************************************************)
(* Packets that picoquic_incoming_server_cleartext rejects.                *)
(* RejectedByClient(k): segment k is an Initial or a Handshake packet      *)
(* decrypted for a client connection and dropped with CnxIdCheck, which    *)
(* for these types only picoquic_incoming_server_cleartext returns.        *)
(***************************************************************************)
RejectedByClient(k) ==
    /\ LongCleartext(k) /\ Events[k].parse = "ok"
    /\ InUse(Events[k].reg, Events[k].cnx) /\ InUse(RegAfter(k), Events[k].cnx)
    /\ PathBefore(k).client_mode
    /\ Events[k].code = "cnxid_check"

InitialAccepted == PhCalled /\ phcall.ret = 0 /\ phcall.ph.ptype = "initial"

(* C39: for every Initial header that picoquic_parse_packet_header accepts *)
(* (ptype is Initial on return) the token ends at or before the packet     *)
(* number, token_offset + token_length <= pn_offset, and the packet number *)
(* starts inside the datagram, pn_offset <= length, whatever the value of  *)
(* the token length varint.                                                *)
C39_TokenBeforePn ==
    InitialAccepted =>
        /\ phcall.ph.token_offset + phcall.ph.token_length <= phcall.ph.pn_offset
        /\ phcall.ph.pn_offset <= phcall.length

(***************************************************************************)
(* Connections deleted while their first segment is processed.             *)
(* DeletedInSegment(k): a connection was created for segment k and deleted *)
(* again, by picoquic_parse_header_and_decrypt after the AEAD check failed *)
(* or by picoquic_incoming_initial after the Initial failed; DeletedSlot(k)*)
(* is the slot it had, the first free one before the segment.              *)
(***************************************************************************)
DeletedInSegment(k) ==
    \/ CreatedThenFailed(k) /\ FreeSlots(Events[k].reg) # {}
    \/ Events[k].code = "connection_deleted"

DeletedSlot(k) ==
    CHOOSE i \in FreeSlots(Events[k].reg) : \A j \in FreeSlots(Events[k].reg) : i <= j

(* C40: after a connection was deleted while segment k was processed,      *)
(* nothing in the call touches it: picoquic_incoming_segment returns -1,  *)
(* the registry is the one from before the segment (no packet number       *)
(* recorded, no ack_needed set), the slot stays free, its wake time is not *)
(* updated, and no further segment is processed.                           *)
C40_DeletedUntouched ==
    Done => \A k \in 1..Len(Events) :
        DeletedInSegment(k) =>
            /\ Events[k].ret = -1
            /\ k = Len(Events)
            /\ RegAfter(k) = Events[k].reg
            /\ cnxs = Events[k].reg
            /\ ~InUse(cnxs, DeletedSlot(k))
            /\ DeletedSlot(k) \notin obs.woke

(* A connection created for an Initial was deleted by the AEAD check, with *)
(* a second segment waiting in the datagram.                               *)
C40_Witness ==
    /\ Done
    /\ Len(dgram.segs) = 2
    /\ CreatedThenFailed(1) /\ FreeSlots(Events[1].reg) # {}
    /\ Len(Events) = 1

(* A connection created for an Initial was deleted by                      *)
(* picoquic_incoming_initial after its frames were handed to the decoder.  *)
C40_WitnessInitial ==
    /\ Done
    /\ \E k \in 1..Len(Events) :
          /\ Events[k].code = "connection_deleted"
          /\ Events[k].ndec = 1
          /\ Len(dgram.segs) = 2

====
